---- MODULE Spec2Model ----
(***************************************************************************)
(* Violation-to-criterion mapping and aggregation of the WCAG MCP server:  *)
(* WCAGAnalyzer (analyzer.js), ExcelReporter (reporter.js) and the         *)
(* Markdown path of WCAGMCPServer (index.js).                              *)
(*                                                                         *)
(* A JavaScript string is a sequence of tokens.  A token is one character  *)
(* ("1", ".", "_"), or a whole word that the code only ever handles as a   *)
(* unit ("Principle", "Guideline", "error").  A JavaScript object used as  *)
(* a map is the sequence of its entries in insertion order (none of the    *)
(* keys used here is an integer index, so insertion order is the order of  *)
(* Object.keys, Object.values and Object.entries).                         *)
(***************************************************************************)
EXTENDS Integers, Sequences, FiniteSets, TLC

VARIABLES
  pc,        \* position of the tool call: "idle", "analyzed", "excel", "markdown", "failed"
  pa11y,     \* what the scanner returned for each URL of the call
  analysis,  \* the object returned by WCAGAnalyzer.analyzeWebsite
  excel,     \* the spreadsheet report: criterion map, status cells, notes
  markdown,  \* the Markdown report: criterion map, summary lines
  runs,      \* what the calls that have returned were given and gave back
  scraper,   \* the WebScraper of the call and the locals of discoverPages
  call,      \* a tool call in the CallTool handler, its analyzer and its browser
  http       \* the HTTP server: the transports by session id, the requests answered

vars == <<pc, pa11y, analysis, excel, markdown, runs, scraper, call, http>>

(***************************************************************************)
(* Strings and regular expressions                                         *)
(***************************************************************************)

\* The characters \d matches.
Digits == {"0", "1", "2", "3", "4", "5", "6", "7", "8", "9"}

\* `${x}` of a missing property.
UndefinedCode == <<"undefined">>
UndefinedType == "undefined"

Min(S) == CHOOSE x \in S : \A y \in S : x <= y

\* s[from..to], empty when to < from.
Slice(s, from, to) == SubSeq(s, from, to)

Lit(s, i, tok) == i >= 1 /\ i <= Len(s) /\ s[i] = tok

\* (\d+) at position i: the index after the longest run of digits that
\* starts at i (i itself when there is none).  Every \d+ of the two patterns
\* is followed by a literal that is no digit, or ends the pattern, so the
\* longest run is the only one a backtracking matcher can accept.
RunEnd(s, i) ==
  IF i < 1 \/ i > Len(s) THEN i
  ELSE CHOOSE j \in i..(Len(s) + 1) :
         /\ \A k \in i..(j - 1) : s[k] \in Digits
         /\ (j = Len(s) + 1 \/ s[j] \notin Digits)

\* No match (null).  A match is the sequence of its capture groups.
NoMatch == <<>>

\* The elements of a pattern: a literal token, or one of the two groups.
DigitGroup == "(\\d)"
NumberGroup == "(\\d+)"

\* /Guideline(\d+)_(\d+)\.(\d+)_(\d+)_(\d+)/
GuidelinePattern ==
  <<"Guideline", NumberGroup, "_", NumberGroup, ".", NumberGroup, "_", NumberGroup,
    "_", NumberGroup>>

\* /Principle(\d)\.Guideline(\d+)_(\d+)\.(\d+)_(\d+)_(\d+)/
PrinciplePattern == <<"Principle", DigitGroup, ".">> \o GuidelinePattern

\* /(\d+)\.(\d+)\.(\d+)/
TriplePattern == <<NumberGroup, ".", NumberGroup, ".", NumberGroup>>

\* The pattern `pat` anchored at position i of s, after the groups `caps`
\* have been captured: the capture groups of the match, or NoMatch.
RECURSIVE RegexAt(_, _, _, _)
RegexAt(pat, s, i, caps) ==
  IF pat = <<>> THEN caps
  ELSE IF Head(pat) = NumberGroup
  THEN IF RunEnd(s, i) > i
       THEN RegexAt(Tail(pat), s, RunEnd(s, i), Append(caps, Slice(s, i, RunEnd(s, i) - 1)))
       ELSE NoMatch
  ELSE IF Head(pat) = DigitGroup
  THEN IF i >= 1 /\ i <= Len(s) /\ s[i] \in Digits
       THEN RegexAt(Tail(pat), s, i + 1, Append(caps, <<s[i]>>))
       ELSE NoMatch
  ELSE IF Lit(s, i, Head(pat)) THEN RegexAt(Tail(pat), s, i + 1, caps)
  ELSE NoMatch

GuidelineAt(s, i) == RegexAt(GuidelinePattern, s, i, <<>>)
PrincipleAt(s, i) == RegexAt(PrinciplePattern, s, i, <<>>)
TripleAt(s, i) == RegexAt(TriplePattern, s, i, <<>>)

\* Mutant: the rightmost match.
MatchTriple_Rightmost(s) ==
  LET starts == {i \in 1..Len(s) : TripleAt(s, i) # NoMatch}
  IN IF starts = {} THEN NoMatch
     ELSE TripleAt(s, CHOOSE i \in starts : \A j \in starts : j <= i)

\* String.prototype.match without the g flag: the match at the leftmost
\* position from `from` on where the pattern matches.
RECURSIVE Match(_, _, _)
Match(pat, s, from) ==
  IF from > Len(s) THEN NoMatch
  ELSE IF RegexAt(pat, s, from, <<>>) # NoMatch THEN RegexAt(pat, s, from, <<>>)
  ELSE Match(pat, s, from + 1)

MatchPrinciple(s) == Match(PrinciplePattern, s, 1)

MatchGuideline(s) == Match(GuidelinePattern, s, 1)

MatchTriple(s) == Match(TriplePattern, s, 1)

\* `${a}.${b}.${c}`
Dotted(a, b, c) == a \o <<".">> \o b \o <<".">> \o c

(***************************************************************************)
(* WCAGAnalyzer (analyzer.js)                                              *)
(*                                                                         *)
(* A raw issue of the scanner is [code, type, message, selector, context]. *)
(* The fields typeCode, runner and runnerExtras are copied through by      *)
(* _groupIssuesByType and read by nothing; they are left out.              *)
(***************************************************************************)

\* Mutant: the key leaves the type out.
IssueKey_CodeOnly(issue) == issue.code

\* const key = `${issue.code}_${issue.type}`
IssueKey(issue) == issue.code \o <<"_", issue.type>>

\* One turn of the loop of _groupIssuesByType: create the entry of the key
\* when it is absent, then push the element.
GroupStep(grouped, issue) ==
  LET key == IssueKey(issue)
      g1  == IF \E k \in 1..Len(grouped) : grouped[k].key = key
             THEN grouped
             ELSE Append(grouped,
                    [key |-> key, code |-> issue.code, type |-> issue.type,
                     message |-> issue.message, context |-> issue.context,
                     selector |-> issue.selector, elements |-> <<>>])
      at  == CHOOSE k \in 1..Len(g1) : g1[k].key = key
  IN [g1 EXCEPT ![at].elements =
        Append(@, [selector |-> issue.selector, context |-> issue.context])]

RECURSIVE GroupLoop(_, _)
GroupLoop(issues, grouped) ==
  IF issues = <<>> THEN grouped
  ELSE GroupLoop(Tail(issues), GroupStep(grouped, Head(issues)))

\* ` (Affects ${n} element${n > 1 ? 's' : ''})`
AffectsSuffix(n) ==
  <<" (Affects ", ToString(n), " element">>
    \o (IF n > 1 THEN <<"s">> ELSE <<>>) \o <<")">>

\* Mutant: every entry counts one element.
GroupedIssue_CountsOne(g) ==
  [code |-> g.code, type |-> g.type, context |-> g.context,
   selector |-> g.selector, elements |-> g.elements,
   affectedElements |-> 1,
   message |-> g.message \o AffectsSuffix(Len(g.elements))]

\* Object.values(grouped).map(issue => ({...issue, affectedElements, message}))
GroupedIssue(g) ==
  [code |-> g.code, type |-> g.type, context |-> g.context,
   selector |-> g.selector, elements |-> g.elements,
   affectedElements |-> Len(g.elements),
   message |-> g.message \o AffectsSuffix(Len(g.elements))]

_groupIssuesByType(issues) ==
  LET grouped == GroupLoop(issues, <<>>)
  IN [k \in 1..Len(grouped) |-> GroupedIssue(grouped[k])]

\* String.prototype.toLowerCase on the type strings of the model.
ToLowerCase(t) ==
  CASE t = "ERROR"   -> "error"
    [] t = "WARNING" -> "warning"
    [] OTHER         -> t

\* issue.type?.toLowerCase() || 'notice'
ImpactType(issue) ==
  IF issue.type = UndefinedType \/ issue.type = "" THEN "notice"
  ELSE ToLowerCase(issue.type)

ZeroImpact == [critical |-> 0, serious |-> 0, moderate |-> 0, minor |-> 0]

\* Mutant: the other types are counted as minor.
ImpactStep_OthersAsMinor(impact, issue) ==
  LET type == ImpactType(issue)
  IN IF type = "error" THEN [impact EXCEPT !.critical = @ + 1]
     ELSE IF type = "warning" THEN [impact EXCEPT !.serious = @ + 1]
     ELSE [impact EXCEPT !.minor = @ + 1]

ImpactStep(impact, issue) ==
  LET type == ImpactType(issue)
  IN IF type = "error" THEN [impact EXCEPT !.critical = @ + 1]
     ELSE IF type = "warning" THEN [impact EXCEPT !.serious = @ + 1]
     ELSE [impact EXCEPT !.moderate = @ + 1]

RECURSIVE ImpactLoop(_, _)
ImpactLoop(issues, impact) ==
  IF issues = <<>> THEN impact
  ELSE ImpactLoop(Tail(issues), ImpactStep(impact, Head(issues)))

_groupIssuesByImpact(issues) == ImpactLoop(issues, ZeroImpact)

\* analyzePage(url) when pa11y resolves with `results`.
analyzePage(url, results) ==
  [url |-> url,
   issues |-> _groupIssuesByType(results.issues),
   totalIssues |-> Len(results.issues)]

\* [...new Set(urls)]
RECURSIVE UniqueUrls(_)
UniqueUrls(urls) ==
  IF urls = <<>> THEN <<>>
  ELSE LET init == UniqueUrls(SubSeq(urls, 1, Len(urls) - 1))
           last == urls[Len(urls)]
       IN IF \E k \in 1..Len(init) : init[k] = last THEN init
          ELSE Append(init, last)

\* Mutant: allIssues = analysis.issues, the last page replaces the others.
RECURSIVE WebsiteLoop_LastPageOnly(_, _, _)
WebsiteLoop_LastPageOnly(urls, scan, acc) ==
  IF urls = <<>> THEN acc
  ELSE LET url == Head(urls)
           page == analyzePage(url, scan[url])
       IN WebsiteLoop_LastPageOnly(Tail(urls), scan,
            IF scan[url].ok
            THEN [acc EXCEPT !.pageAnalyses = Append(@, page),
                             !.allIssues = page.issues]
            ELSE [acc EXCEPT !.failedPages = Append(@, url)])

\* Mutant: a failed page is also recorded as an issue of type error.
RECURSIVE WebsiteLoop_FailureAsIssue(_, _, _)
WebsiteLoop_FailureAsIssue(urls, scan, acc) ==
  IF urls = <<>> THEN acc
  ELSE LET url == Head(urls)
           page == analyzePage(url, scan[url])
       IN WebsiteLoop_FailureAsIssue(Tail(urls), scan,
            IF scan[url].ok
            THEN [acc EXCEPT !.pageAnalyses = Append(@, page),
                             !.allIssues = @ \o page.issues]
            ELSE [acc EXCEPT !.failedPages = Append(@, url),
                             !.allIssues = Append(@, [type |-> "error"])])

\* Mutant: the first page that fails ends the loop.
RECURSIVE WebsiteLoop_StopsAtFailure(_, _, _)
WebsiteLoop_StopsAtFailure(urls, scan, acc) ==
  IF urls = <<>> THEN acc
  ELSE LET url == Head(urls)
           page == analyzePage(url, scan[url])
       IN IF scan[url].ok
          THEN WebsiteLoop_StopsAtFailure(Tail(urls), scan,
                 [acc EXCEPT !.pageAnalyses = Append(@, page),
                             !.allIssues = @ \o page.issues])
          ELSE [acc EXCEPT !.failedPages = Append(@, url)]

\* The loop of analyzeWebsite over uniqueUrls[from..]; scan[url] is what pa11y
\* does for the URL: it resolves with results (ok) or it rejects.
RECURSIVE WebsiteLoop(_, _, _)
WebsiteLoop(urls, scan, acc) ==
  IF urls = <<>> THEN acc
  ELSE LET url == Head(urls)
           page == analyzePage(url, scan[url])
       IN WebsiteLoop(Tail(urls), scan,
            IF scan[url].ok
            THEN [acc EXCEPT !.pageAnalyses = Append(@, page),
                             !.allIssues = @ \o page.issues]
            ELSE [acc EXCEPT !.failedPages = Append(@, url)])

\* baseUrl: uniqueUrls[0] || ''  (URLs are numbered from 1; 0 is '').
NoUrl == 0

analyzeWebsite(urls, scan) ==
  LET uniqueUrls == UniqueUrls(urls)
      acc == WebsiteLoop(uniqueUrls, scan,
               [pageAnalyses |-> <<>>, failedPages |-> <<>>, allIssues |-> <<>>])
  IN [baseUrl |-> IF uniqueUrls = <<>> THEN NoUrl ELSE uniqueUrls[1],
      pagesAnalyzed |-> Len(acc.pageAnalyses),
      totalIssues |-> Len(acc.allIssues),
      pageAnalyses |-> acc.pageAnalyses,
      issuesByImpact |-> _groupIssuesByImpact(acc.allIssues),
      failedPages |-> acc.failedPages]

(***************************************************************************)
(* ExcelReporter (reporter.js)                                             *)
(***************************************************************************)

\* Mutant: only the first page's issues are collected.
AllPageIssues_FirstPageOnly(pageAnalyses) ==
  IF pageAnalyses = <<>> THEN <<>> ELSE Head(pageAnalyses).issues

\* allIssues of _mapViolationsToWCAG.  analyzeWCAG hands over the result of
\* analyzeWebsite, whose pageAnalyses is always an array, so the branch on
\* analysis.issues is never taken.
RECURSIVE AllPageIssues(_)
AllPageIssues(pageAnalyses) ==
  IF pageAnalyses = <<>> THEN <<>>
  ELSE Head(pageAnalyses).issues \o AllPageIssues(Tail(pageAnalyses))

\* issue.affectedElements || 1
AffectedOr1(issue) ==
  IF issue.affectedElements = 0 THEN 1 ELSE issue.affectedElements

\* Mutant: the bare reference is preferred to the structured one.
FirstMatch_SecondPreferred(first, second) == IF second # NoMatch THEN second ELSE first

\* The first of two matches that is one: if (wcagMatch) ... else if (altMatch).
FirstMatch(first, second) == IF first # NoMatch THEN first ELSE second

\* Mutant: the guideline numbers in place of the success criterion's, as in
\* the Markdown path.
WcagCriterion_GuidelineNumbers(wcagMatch) ==
  IF wcagMatch = NoMatch THEN NoMatch
  ELSE <<Dotted(wcagMatch[2], wcagMatch[3], wcagMatch[6]), wcagMatch[1]>>

\* const [, principle, guideline1, guideline2, sc1, sc2, sc3] = wcagMatch:
\* the criterion `${sc1}.${sc2}.${sc3}` and the principle digit.
WcagCriterion(wcagMatch) ==
  IF wcagMatch = NoMatch THEN NoMatch
  ELSE <<Dotted(wcagMatch[4], wcagMatch[5], wcagMatch[6]), wcagMatch[1]>>

\* The criterion `${altMatch[1]}.${altMatch[2]}.${altMatch[3]}` and the
\* principle altMatch[1].
AltCriterion(altMatch) ==
  IF altMatch = NoMatch THEN NoMatch
  ELSE <<Dotted(altMatch[1], altMatch[2], altMatch[3]), altMatch[1]>>

\* The criterion the spreadsheet path files an issue under, with the
\* principle it records; NoMatch when neither pattern matches.
\* issue.code?.match(...) of a missing code is undefined: no match.
ExcelCriterion(code) ==
  IF code = UndefinedCode THEN NoMatch
  ELSE FirstMatch(WcagCriterion(MatchPrinciple(code)), AltCriterion(MatchTriple(code)))

\* Mutant: every issue gets a bucket of its own.
ExcelFile_AlwaysNewBucket(byCriteria, found, issue) ==
  IF found = NoMatch THEN byCriteria
  ELSE Append(byCriteria,
         [principle |-> <<"Prinsipp ">> \o found[2],
          criterion |-> found[1],
          issues |-> <<[type |-> issue.type, message |-> issue.message,
                        selector |-> issue.selector,
                        affectedElements |-> AffectedOr1(issue)]>>])

\* Mutant: the issue is put in front of the entries of its bucket.
ExcelFile_Prepends(byCriteria, found, issue) ==
  LET criterion == found[1]
      b1 == IF \E k \in 1..Len(byCriteria) : byCriteria[k].criterion = criterion
            THEN byCriteria
            ELSE Append(byCriteria,
                   [principle |-> <<"Prinsipp ">> \o found[2],
                    criterion |-> criterion, issues |-> <<>>])
      at == CHOOSE k \in 1..Len(b1) : b1[k].criterion = criterion
  IN IF found = NoMatch THEN byCriteria
     ELSE [b1 EXCEPT ![at].issues =
             <<[type |-> issue.type, message |-> issue.message,
                selector |-> issue.selector,
                affectedElements |-> AffectedOr1(issue)]>> \o @]

\* The body of the two branches: create the bucket of the criterion when it
\* is absent, then push the issue.
ExcelFile(byCriteria, found, issue) ==
  LET criterion == found[1]
      b1 == IF \E k \in 1..Len(byCriteria) : byCriteria[k].criterion = criterion
            THEN byCriteria
            ELSE Append(byCriteria,
                   [principle |-> <<"Prinsipp ">> \o found[2],
                    criterion |-> criterion, issues |-> <<>>])
      at == CHOOSE k \in 1..Len(b1) : b1[k].criterion = criterion
  IN IF found = NoMatch THEN byCriteria
     ELSE [b1 EXCEPT ![at].issues =
             Append(@, [type |-> issue.type, message |-> issue.message,
                        selector |-> issue.selector,
                        affectedElements |-> AffectedOr1(issue)])]

\* One turn of the loop of ExcelReporter._mapViolationsToWCAG.
ExcelStep(byCriteria, issue) == ExcelFile(byCriteria, ExcelCriterion(issue.code), issue)

RECURSIVE ExcelLoop(_, _)
ExcelLoop(issues, byCriteria) ==
  IF issues = <<>> THEN byCriteria
  ELSE ExcelLoop(Tail(issues), ExcelStep(byCriteria, Head(issues)))

\* Mutant: the criterion map is kept from one report to the next.
Excel_mapViolationsToWCAG_Carried(a) ==
  ExcelLoop(AllPageIssues(a.pageAnalyses), excel.violationsByCriteria)

Excel_mapViolationsToWCAG(a) == ExcelLoop(AllPageIssues(a.pageAnalyses), <<>>)

\* violations.issues.filter(i => i.type === t).length
CountType(issues, t) == Cardinality({k \in 1..Len(issues) : issues[k].type = t})

\* Mutant: the total is the number of entries.
TotalElements_Entries(issues) == Len(issues)

\* violations.issues.reduce((sum, i) => sum + i.affectedElements, 0)
RECURSIVE TotalElements(_)
TotalElements(issues) ==
  IF issues = <<>> THEN 0
  ELSE Head(issues).affectedElements + TotalElements(Tail(issues))

\* Mutant: the warnings are looked at first.
ExcelStatus_WarningFirst(violations) ==
  IF CountType(violations.issues, "warning") > 0 THEN "Advarsel"
  ELSE IF CountType(violations.issues, "error") > 0 THEN "Ikke oppfylt"
  ELSE "Oppfylt"

\* The status written to column D for a criterion that has violations.
ExcelStatus(violations) ==
  IF CountType(violations.issues, "error") > 0 THEN "Ikke oppfylt"
  ELSE IF CountType(violations.issues, "warning") > 0 THEN "Advarsel"
  ELSE "Oppfylt"

\* The note of the status cell.  Messages of the model are shorter than 100
\* characters, so substring(0, 100) keeps them whole.
ExcelNote(violations) ==
  [types |-> Len(violations.issues),
   feil |-> CountType(violations.issues, "error"),
   advarsler |-> CountType(violations.issues, "warning"),
   elementer |-> TotalElements(violations.issues),
   detaljer |-> [k \in 1..(IF Len(violations.issues) < 3
                            THEN Len(violations.issues) ELSE 3)
                   |-> violations.issues[k].message]]

\* Column C of the data rows (row 6 onwards) of the checklist template.
TemplateRows ==
  << <<"Suksesskriterium">>,
     <<"1", ".", "1", ".", "1", " Ikke-tekstlig innhold">>,
     <<"1", ".", "4", ".", "3", " Kontrast (minimum)">>,
     <<"2", ".", "4", ".", "2", " Sidetitler">> >>

\* criterionText.match(/^(\d+\.\d+\.\d+)/): the criterion number of a row.
RowCriterion(text) ==
  LET m == TripleAt(text, 1)
  IN IF m = NoMatch THEN NoMatch ELSE Dotted(m[1], m[2], m[3])

NotChecked == [value |-> "Ikke sjekket", note |-> <<>>]

\* _updateWorksheet: the status cell of every row whose criterion has
\* violations is rewritten; the other rows keep the template's cell.
_updateWorksheet(byCriteria, a) ==
  [cells |->
     [r \in 1..Len(TemplateRows) |->
        LET criterion == RowCriterion(TemplateRows[r])
            hits == {k \in 1..Len(byCriteria) : byCriteria[k].criterion = criterion}
        IN IF criterion = NoMatch \/ hits = {} THEN NotChecked
           ELSE LET violations == byCriteria[CHOOSE k \in hits : TRUE]
                IN [value |-> ExcelStatus(violations),
                    note |-> <<ExcelNote(violations)>>]],
   summary |->
     [baseUrl |-> a.baseUrl,
      pages |-> IF a.pagesAnalyzed = 0 THEN 1 ELSE a.pagesAnalyzed,
      problems |-> a.totalIssues]]

(***************************************************************************)
(* Markdown path of WCAGMCPServer (index.js)                               *)
(***************************************************************************)

\* const [, major, minor, sc1, sc2, sc3] = match: `${major}.${minor}.${sc3}`.
GuidelineCriterion(match) ==
  IF match = NoMatch THEN NoMatch ELSE Dotted(match[1], match[2], match[5])

\* The criterion the Markdown path files an issue under.
MarkdownCriterion(code) == GuidelineCriterion(MatchGuideline(code))

\* The body of if (match): create the bucket when it is absent, then push.
MarkdownFile(acc, criteria, issue) ==
  LET m1 == IF \E k \in 1..Len(acc.map) : acc.map[k].criteria = criteria
            THEN acc.map
            ELSE Append(acc.map, [criteria |-> criteria, violations |-> <<>>])
      at == CHOOSE k \in 1..Len(m1) : m1[k].criteria = criteria
  IN IF criteria = NoMatch THEN acc
     ELSE [acc EXCEPT !.map =
             [m1 EXCEPT ![at].violations =
                Append(@, [message |-> issue.message, type |-> issue.type,
                           selector |-> issue.selector,
                           count |-> AffectedOr1(issue),
                           context |-> issue.context])]]

\* One turn of the inner loop of WCAGMCPServer._mapViolationsToWCAG.
\* issue.code.match(...) of a missing code throws a TypeError, which ends the
\* loop and the report.
MarkdownStep(acc, issue) ==
  IF acc.threw THEN acc
  ELSE IF issue.code = UndefinedCode THEN [acc EXCEPT !.threw = TRUE]
  ELSE MarkdownFile(acc, MarkdownCriterion(issue.code), issue)

RECURSIVE MarkdownLoop(_, _)
MarkdownLoop(issues, acc) ==
  IF issues = <<>> THEN acc
  ELSE MarkdownLoop(Tail(issues), MarkdownStep(acc, Head(issues)))

\* for (page of analysis.pageAnalyses) for (issue of page.issues): the pages'
\* issues in page order.
Markdown_mapViolationsToWCAG(a) ==
  MarkdownLoop(AllPageIssues(a.pageAnalyses), [threw |-> FALSE, map |-> <<>>])

\* Code-unit order of the characters of a criterion key: "," < "." < "0".."9".
DigitOrder == <<"0", "1", "2", "3", "4", "5", "6", "7", "8", "9">>

CodeUnit(c) ==
  IF c = "," THEN 44
  ELSE IF c = "." THEN 46
  ELSE 47 + (CHOOSE k \in 1..10 : DigitOrder[k] = c)

\* a < b as strings.
RECURSIVE StringLess(_, _)
StringLess(a, b) ==
  IF b = <<>> THEN FALSE
  ELSE IF a = <<>> THEN TRUE
  ELSE IF Head(a) # Head(b) THEN CodeUnit(Head(a)) < CodeUnit(Head(b))
  ELSE StringLess(Tail(a), Tail(b))

\* Object.entries(violationsByCriteria).sort(): the default sort compares
\* the entries as strings, `${criteria},${violations}`; the keys differ, so
\* the key followed by "," decides.
SortedEntries(map) ==
  [p \in 1..Len(map) |->
     map[CHOOSE k \in 1..Len(map) :
           Cardinality({j \in 1..Len(map) :
              StringLess(map[j].criteria \o <<",">>, map[k].criteria \o <<",">>)})
             = p - 1]]

\* The summary line of one criterion in _generateMarkdownReport.
MarkdownLine(entry, language) ==
  LET errorCount == CountType(entry.violations, "error")
  IN [criteria |-> entry.criteria,
      icon |-> IF errorCount > 0 THEN "red" ELSE "yellow",
      status |-> IF errorCount > 0
                 THEN (IF language = "en" THEN "Error" ELSE "Feil")
                 ELSE (IF language = "en" THEN "Warning" ELSE "Advarsel"),
      issues |-> Len(entry.violations)]

\* The sections of the Markdown report that come from the aggregation: the
\* header counts, the criteria summary and the severity table.
_generateMarkdownReport(a, language) ==
  LET violationsByCriteria == Markdown_mapViolationsToWCAG(a).map
      sorted == SortedEntries(violationsByCriteria)
  IN [violationsByCriteria |-> violationsByCriteria,
      pages |-> a.pagesAnalyzed,
      issues |-> a.totalIssues,
      lines |-> [k \in 1..Len(sorted) |-> MarkdownLine(sorted[k], language)],
      severity |-> a.issuesByImpact]

(***************************************************************************)
(* WebScraper (scraper.js)                                                 *)
(***************************************************************************)

\* constructor(): this.visited = new Set()
NewScraper == [phase |-> "new", visited |-> {}]

\* A URL is its parts; two URLs are the same string exactly when they have
\* the same parts.
Url(protocol, hostname, pathname, hash) ==
  [protocol |-> protocol, hostname |-> hostname, pathname |-> pathname, hash |-> hash]

\* An href attribute: an absolute URL, a path on the host of the page, a
\* fragment of the page, or text that new URL(href, url) rejects.
Absolute(url) == [kind |-> "absolute", url |-> url]
Path(pathname, hash) == [kind |-> "path", pathname |-> pathname, hash |-> hash]
Fragment(hash) == [kind |-> "fragment", hash |-> hash]
Invalid == [kind |-> "invalid"]

\* What parsing does to a URL that is then written with toString(): an
\* http, https or ftp URL without a path gets the path "/".
Normalize(url) ==
  IF url.protocol \in {"http:", "https:", "ftp:"} /\ url.pathname = ""
  THEN [url EXCEPT !.pathname = "/"]
  ELSE url

\* new URL(href, url)
Resolve(href, url) ==
  CASE href.kind = "absolute" -> Normalize(href.url)
    [] href.kind = "path" -> Url(url.protocol, url.hostname, href.pathname, href.hash)
    [] href.kind = "fragment" ->
         Url(url.protocol, url.hostname, Normalize(url).pathname, href.hash)

\* Mutant: only the scheme of a link is looked at.
SameDomain_SchemeOnly(absoluteUrl, baseDomain) ==
  absoluteUrl.protocol = "http:" \/ absoluteUrl.protocol = "https:"

\* absoluteUrl.hostname === baseDomain &&
\*   (absoluteUrl.protocol === 'http:' || absoluteUrl.protocol === 'https:')
SameDomain(absoluteUrl, baseDomain) ==
  /\ absoluteUrl.hostname = baseDomain
  /\ (absoluteUrl.protocol = "http:" \/ absoluteUrl.protocol = "https:")

\* The callback of $('a[href]').each: an href that new URL rejects is
\* skipped; a same-domain link is pushed without its fragment.
LinkStep(links, href, url, baseDomain) ==
  IF href.kind = "invalid" THEN links
  ELSE IF SameDomain(Resolve(href, url), baseDomain)
  THEN Append(links, [Resolve(href, url) EXCEPT !.hash = ""])
  ELSE links

RECURSIVE LinkLoop(_, _, _, _)
LinkLoop(hrefs, url, baseDomain, links) ==
  IF hrefs = <<>> THEN links
  ELSE LinkLoop(Tail(hrefs), url, baseDomain, LinkStep(links, Head(hrefs), url, baseDomain))

\* Mutant: the links of a page are read whatever its status.
_extractLinks_IgnoresStatus(response, url, baseDomain) ==
  UniqueUrls(LinkLoop(response.hrefs, url, baseDomain, <<>>))

\* _extractLinks(url, baseDomain) when axios.get answers `response`: a status
\* other than 200 rejects, and the catch returns no links.
_extractLinks(response, url, baseDomain) ==
  IF response.status # 200 THEN <<>>
  ELSE UniqueUrls(LinkLoop(response.hrefs, url, baseDomain, <<>>))

Includes(pages, link) == \E k \in 1..Len(pages) : pages[k] = link

\* for (const link of links): a link that is new and fits is pushed to pages
\* and to nextToCrawl.
RECURSIVE AddLinks(_, _, _)
AddLinks(links, acc, maxPages) ==
  IF links = <<>> THEN acc
  ELSE AddLinks(Tail(links),
         IF ~Includes(acc.pages, Head(links)) /\ Len(acc.pages) < maxPages
         THEN [pages |-> Append(acc.pages, Head(links)),
               nextToCrawl |-> Append(acc.nextToCrawl, Head(links))]
         ELSE acc,
         maxPages)

\* Mutant: the depth that equals maxDepth is crawled too.
WithinDepth_Inclusive(depth, maxDepth) == depth <= maxDepth

\* depth < maxDepth, the test of the loop over the depths.
WithinDepth(depth, maxDepth) == depth < maxDepth

\* pages.length >= maxPages || toCrawl.length === 0, the break of the loop.
Break(pages, toCrawl, maxPages) == Len(pages) >= maxPages \/ toCrawl = <<>>

\* Mutant: all the pages are returned.
ReturnedPages_NoSlice(pages, maxPages) == UniqueUrls(pages)

\* [...new Set(pages)].slice(0, maxPages), maxPages a natural number.
ReturnedPages(pages, maxPages) ==
  SubSeq(UniqueUrls(pages), 1,
         IF maxPages < Len(UniqueUrls(pages)) THEN maxPages ELSE Len(UniqueUrls(pages)))

(***************************************************************************)
(* Inputs: the arguments of discoverPages and the answers of the site      *)
(***************************************************************************)

MaxMaxDepth == 3   \* largest maxDepth
MaxMaxPages == 5   \* largest maxPages

BaseHost == "site.example"
\* The startUrl of the call, as the caller wrote it: "https://site.example/"
\* or "https://site.example".
StartUrls == {Url("https:", BaseHost, "/", ""), Url("https:", BaseHost, "", "")}

\* What axios.get answers for a page: a failure; no link; links to pages of
\* the site, forward and back to the start; links to another host, with
\* another scheme, with fragments, twice to the same page; an href that is
\* no URL.
Responses ==
  { [status |-> 404, hrefs |-> <<Path("/a", "")>>],
    [status |-> 200, hrefs |-> <<>>],
    [status |-> 200, hrefs |-> <<Path("/a", "")>>],
    [status |-> 200, hrefs |-> <<Path("/a", ""), Path("/b", "")>>],
    [status |-> 200, hrefs |-> <<Path("/b", ""), Path("/c", ""), Path("/d", "")>>],
    [status |-> 200, hrefs |-> <<Path("/", ""), Path("/c", "")>>],
    [status |-> 200, hrefs |-> <<Absolute(Url("https:", BaseHost, "", "")), Path("/a", "")>>],
    [status |-> 200,
     hrefs |-> <<Absolute(Url("https:", "other.example", "/a", "")), Path("/b", "")>>],
    [status |-> 200,
     hrefs |-> <<Absolute(Url("ftp:", BaseHost, "/f", "")),
                 Absolute(Url("mailto:", "", "info@site.example", "")),
                 Absolute(Url("http:", BaseHost, "/a", ""))>>],
    [status |-> 200, hrefs |-> <<Invalid, Fragment("top"), Path("/a", "part")>>],
    [status |-> 200, hrefs |-> <<Path("/c", "x"), Path("/c", "y"), Path("/d", "")>>] }

(***************************************************************************)
(* Inputs: the scanner's results for the URLs of one analyze_wcag call     *)
(***************************************************************************)

MaxPages == 2    \* URLs of one call
MaxIssues == 3   \* raw issues the scanner reports in one call, all pages
MaxAffix == 2    \* tokens before and after the reference in a rule code
MaxUrls == 3     \* URLs given to analyzeWebsite, repetitions counted

\* "WCAG2AA.Principle1.Guideline1_4.1_4_3.G18.Fail"
HtmlcsCode ==
  <<"WCAG", "2", "AA", ".", "Principle", "1", ".", "Guideline", "1", "_", "4",
    ".", "1", "_", "4", "_", "3", ".", "G", "1", "8", ".", "Fail">>
\* "2.4.2"
BareCode == <<"2", ".", "4", ".", "2">>
\* "no-reference-here"
PlainCode == <<"no-reference-here">>

\* The <<code, type>> pairs of the pooled rules: one rule reported with each
\* type, one with a bare reference, one with no reference.
PoolTypes == {"error", "warning", "notice"}
PoolPairs ==
  ({HtmlcsCode} \X PoolTypes) \cup {<<BareCode, "warning">>, <<PlainCode, "error">>}
\* One rule with every kind of type: exact, in another letter case, missing.
ImpactTypes == {"error", "ERROR", "WARNING", UndefinedType}
ImpactPairs == {PlainCode} \X ImpactTypes
\* A well-formed issue among malformed ones: one with no code, one with no
\* type.
MalformedPairs ==
  {<<UndefinedCode, "error">>, <<HtmlcsCode, UndefinedType>>, <<HtmlcsCode, "warning">>}

\* The k-th raw issue pa11y reports for a URL.  The message belongs to the
\* rule; selector and context belong to the element, one per occurrence.
RawIssue(code, type, url, k) ==
  [code |-> code, type |-> type,
   message |-> <<"Message of ">> \o code,
   selector |-> <<"#el", ToString(url), "-", ToString(k)>>,
   context |-> <<"<el", ToString(url), "-", ToString(k), ">">>]

\* What pa11y does for one URL: it resolves with raw issues, given as
\* <<code, type>> pairs, or it rejects.
PageOutcomes(Pairs, n, mayFail) ==
  (IF mayFail THEN {[ok |-> FALSE, pairs |-> <<>>]} ELSE {})
    \cup UNION {{[ok |-> TRUE, pairs |-> ps] : ps \in [1..k -> Pairs]} : k \in 0..n}

\* The outcomes of at most `pages` URLs with at most `issues` raw issues.
RECURSIVE SiteShapes(_, _, _, _)
SiteShapes(Pairs, pages, issues, mayFail) ==
  IF pages = 0 THEN {<<>>}
  ELSE {<<>>} \cup
       UNION {{<<pg>> \o rest :
                 rest \in SiteShapes(Pairs, pages - 1, issues - Len(pg.pairs), mayFail)} :
              pg \in PageOutcomes(Pairs, issues, mayFail)}

Site(shape) ==
  [urls |-> [u \in 1..Len(shape) |-> u],
   scan |-> [u \in 1..Len(shape) |->
               [ok |-> shape[u].ok,
                issues |-> [k \in 1..Len(shape[u].pairs) |->
                              RawIssue(shape[u].pairs[k][1], shape[u].pairs[k][2], u, k)]]]]

\* Rule codes around a reference: junk before and after one of the shapes
\* the two mappings look for, whole or broken.
AffixTokens == {".", "7"}
Affixes == UNION {[1..k -> AffixTokens] : k \in 0..MaxAffix}

PrincipleParts == {<<>>, <<"Principle", "1", ".">>, <<"Principle", "1", "2", ".">>}
GuidelineParts ==
  {<<"Guideline", "1", "_", "4", ".">>, <<"Guideline", "2", "_", "1", "2", ".">>}
Triples == {<< <<"1">>, <<"4">>, <<"3">> >>, << <<"1">>, <<"4">>, <<"1", "2">> >>,
            << <<"2">>, <<"4">>, <<"3">> >>}

References ==
  {pp \o gp \o t[1] \o <<"_">> \o t[2] \o <<"_">> \o t[3] :
     pp \in PrincipleParts, gp \in GuidelineParts, t \in Triples}
    \cup {Dotted(t[1], t[2], t[3]) : t \in Triples}
    \cup {<<"1", ".", "4">>, <<"Guideline", "1", "_", "4">>, <<>>}

ParseCodes == {pre \o ref \o post : pre \in Affixes, ref \in References, post \in Affixes}

\* The calls of the model: pages of pooled rules; pages of one rule with
\* every kind of type; pages of one rule and type whose scan may fail; one
\* page with one issue of any code; pages with malformed issues.
PoolSites == {Site(sh) : sh \in SiteShapes(PoolPairs, MaxPages, MaxIssues, FALSE)}
ImpactSites == {Site(sh) : sh \in SiteShapes(ImpactPairs, MaxPages, MaxIssues, FALSE)}
FlakySites ==
  {Site(sh) : sh \in SiteShapes({<<HtmlcsCode, "error">>}, MaxPages, MaxIssues, TRUE)}
ParseSites ==
  {Site(<<[ok |-> TRUE, pairs |-> << <<c, "error">> >>]>>) : c \in ParseCodes}
MalformedSites ==
  {Site(sh) : sh \in SiteShapes(MalformedPairs, MaxPages, MaxIssues, FALSE)}
\* Codes with more than one reference: a bare one before, after or around a
\* structured one, two structured ones, two bare ones.
StructuredPart(p, a, b, c) ==
  <<"Principle", p, ".", "Guideline", a, "_", b, ".", a, "_", b, "_", c>>
MixedCodes ==
  LET s143 == StructuredPart("1", "1", "4", "3")
      s242 == StructuredPart("2", "2", "4", "2")
      b331 == <<"3", ".", "3", ".", "1">>
      b211 == <<"2", ".", "1", ".", "1">>
      sp == <<" ">>
  IN {b331 \o sp \o s143, s143 \o sp \o b331, s143 \o <<".">> \o b331,
      b331 \o sp \o s143 \o sp \o b211, s143 \o sp \o s242, s242 \o sp \o s143,
      b331 \o sp \o b211, b211 \o sp \o b331}
MixedSites ==
  {Site(<<[ok |-> TRUE, pairs |-> << <<c, "error">> >>]>>) : c \in MixedCodes}

\* Lists of URLs that name a page more than once or out of order, over two
\* pages whose scans may fail.
RepeatSites ==
  {[urls |-> us, scan |-> Site(sh).scan] :
     sh \in {s \in SiteShapes({<<HtmlcsCode, "error">>}, 2, 2, TRUE) : Len(s) = 2},
     us \in UNION {[1..n -> 1..2] : n \in 2..MaxUrls}}
Sites ==
  PoolSites \cup ImpactSites \cup FlakySites \cup ParseSites \cup MalformedSites
    \cup RepeatSites \cup MixedSites

(***************************************************************************)
(* The CallTool handler (index.js) and the browser of WCAGAnalyzer         *)
(***************************************************************************)

\* null, where a browser would be a number from 1
Null == 0

\* new WCAGAnalyzer(standard): this.browser = null
NewAnalyzer == [browser |-> Null]

NoResult == [content |-> <<>>]

\* No call yet.  `chrome` is the browser processes launched, "open" or
\* "closed"; `thrown` the message of the error on its way to the handler;
\* `result` what the tool returns; `response` what the handler answered.
NoCall ==
  [phase |-> "idle", name |-> "", format |-> "", pages |-> 0, analyzer |-> NewAnalyzer,
   chrome |-> <<>>, pagesAnalyzed |-> 0, failedPages |-> 0, thrown |-> <<>>,
   result |-> NoResult, response |-> NoResult]

ToolNames == {"analyze_wcag", "quick_check", "check_html_code", "get_wcag_rules", "suggest_aria"}

StaticTools == {"check_html_code", "get_wcag_rules", "suggest_aria"}

\* { content: [{ type: 'text', text }] }
TextResult(text) == [content |-> <<[type |-> "text", text |-> text]>>]

\* The result of analyze_wcag with format 'excel': the workbook and a line.
ExcelResult ==
  [content |-> <<[type |-> "resource", text |-> <<"blob">>],
                 [type |-> "text", text |-> <<"Excel-rapport generert">>]>>]

\* Mutant: the handler lets the error through.
ErrorResult_Rethrown(message) == [exception |-> message]

\* The catch of the handler: one text item, `Error: ${error.message}`.
ErrorResult(message) == TextResult(<<"Error: ">> \o message)

\* WCAGAnalyzer.init when puppeteer.launch answers `launched`: a browser is
\* launched only when the analyzer has none.
init(c, launched) ==
  IF c.analyzer.browser = Null /\ launched
  THEN [c EXCEPT !.chrome = Append(@, "open"),
                 !.analyzer = [browser |-> Len(c.chrome) + 1]]
  ELSE c

\* Mutant: the browser is closed only when nothing was thrown.
close_WhenNothingThrown(c) ==
  IF c.analyzer.browser # Null /\ c.thrown = <<>>
  THEN [c EXCEPT !.chrome[c.analyzer.browser] = "closed",
                 !.analyzer = [browser |-> Null]]
  ELSE c

\* WCAGAnalyzer.close
close(c) ==
  IF c.analyzer.browser # Null
  THEN [c EXCEPT !.chrome[c.analyzer.browser] = "closed",
                 !.analyzer = [browser |-> Null]]
  ELSE c

(***************************************************************************)
(* The HTTP server (index.js)                                              *)
(***************************************************************************)

\* The value of req.headers['mcp-session-id'] when the header is not sent.
NoSessionId == "undefined"

\* The names every object inherits from Object.prototype (some of them).
PrototypeKeys == {"constructor", "__proto__"}

\* No request answered in the step just taken.
NoAnswer == [method |-> "none"]

\* const transports = {}.  `transports` is the own entries <<session id,
\* transport>> of the object; `made` is the transports created so far, each
\* with its sessionId and state ("connecting", "initialized", "closed");
\* `last` is the request answered in the step just taken.
NewHttpServer == [transports |-> {}, made |-> <<>>, last |-> NoAnswer]

\* A header value that is truthy.
Sent(sessionId) == sessionId # NoSessionId /\ sessionId # ""

\* transports[sessionId]: the transport stored under the id, else what the
\* object inherits under that name, else undefined.
Lookup(transports, sessionId) ==
  IF \E e \in transports : e[1] = sessionId
  THEN [kind |-> "transport", transport |-> (CHOOSE e \in transports : e[1] = sessionId)[2]]
  ELSE IF sessionId \in PrototypeKeys THEN [kind |-> "inherited"]
  ELSE [kind |-> "undefined"]

\* Mutant: the entry stays when the transport closes.
onclose_KeepsEntry(transports, sid) == transports

\* transport.onclose: if (sid && transports[sid]) delete transports[sid]
onclose(transports, sid) ==
  IF Sent(sid) /\ Lookup(transports, sid).kind # "undefined"
  THEN {e \in transports : e[1] # sid}
  ELSE transports

\* The else branch of POST /mcp: the request has an id that is not in the
\* map, or has no id and is no initialize request.
BadRequest(sessionId, isInitialize) == ~(~Sent(sessionId) /\ isInitialize)

(***************************************************************************)
(* The analyze_wcag call, after page discovery                             *)
(***************************************************************************)

NoAnalysis ==
  [baseUrl |-> NoUrl, pagesAnalyzed |-> 0, totalIssues |-> 0,
   pageAnalyses |-> <<>>, issuesByImpact |-> ZeroImpact, failedPages |-> <<>>]

\* The worksheet as loaded from the template.
Template ==
  [violationsByCriteria |-> <<>>,
   cells |-> [r \in 1..Len(TemplateRows) |-> NotChecked],
   summary |-> [baseUrl |-> NoUrl, pages |-> 0, problems |-> 0]]

NoReport ==
  [violationsByCriteria |-> <<>>, pages |-> 0, issues |-> 0, lines |-> <<>>,
   severity |-> ZeroImpact]

Init ==
  /\ pc = "idle"
  /\ pa11y = [urls |-> <<>>, scan |-> <<>>]
  /\ analysis = NoAnalysis
  /\ excel = Template
  /\ markdown = NoReport
  /\ runs = <<>>
  /\ scraper = NewScraper
  /\ call = NoCall
  /\ http = NewHttpServer

\* Mutant: the mapping empties the pages' issue lists as it collects them.
AnalysisAfterMapping_Drained(a) ==
  [a EXCEPT !.pageAnalyses =
     [j \in 1..Len(a.pageAnalyses) |-> [a.pageAnalyses[j] EXCEPT !.issues = <<>>]]]

\* What the report leaves in the analysis it was handed.  Both mappings and
\* both renderers read analysis.pageAnalyses, page.issues and the fields of
\* the issues, and push object literals of their own; they assign to no
\* property of the analysis, of a page or of an issue.
AnalysisAfterMapping(a) == a

\* What analyzePage leaves in the issue list pa11y returned.
\* _groupIssuesByType and _groupIssuesByImpact read the fields of the issues
\* and build objects of their own.
IssuesAfterGrouping(issues) == issues

\* analyzer.analyzeWebsite(pages), for the pages and scans of one of `sites`.
AnalyzeOneOf(sites) ==
  /\ pc = "idle"
  /\ \E site \in sites :
       /\ pa11y' =
            [urls |-> site.urls,
             scan |-> [u \in 1..Len(site.scan) |->
                        [ok |-> site.scan[u].ok,
                         issues |-> IssuesAfterGrouping(site.scan[u].issues)]]]
       /\ analysis' = analyzeWebsite(site.urls, site.scan)
  /\ pc' = "analyzed"
  /\ UNCHANGED <<excel, markdown, runs, scraper, call, http>>

AnalyzeWebsite == AnalyzeOneOf(Sites)

\* format === 'excel': reporter.generateReport(analysis, checklist_type)
GenerateExcelReport ==
  /\ pc = "analyzed"
  /\ LET violationsByCriteria == Excel_mapViolationsToWCAG(analysis)
         worksheet == _updateWorksheet(violationsByCriteria, analysis)
     IN excel' = [violationsByCriteria |-> violationsByCriteria,
                  cells |-> worksheet.cells, summary |-> worksheet.summary]
  /\ pc' = "excel"
  /\ analysis' = AnalysisAfterMapping(analysis)
  /\ UNCHANGED <<pa11y, markdown, runs, scraper, call, http>>

\* otherwise: this._generateMarkdownReport(analysis, language); a TypeError
\* of the mapping ends the call without a report.
GenerateMarkdownReport ==
  /\ pc = "analyzed"
  /\ \E language \in {"en", "no"} :
       IF Markdown_mapViolationsToWCAG(analysis).threw
       THEN /\ pc' = "failed"
            /\ UNCHANGED markdown
       ELSE /\ pc' = "markdown"
            /\ markdown' = _generateMarkdownReport(analysis, language)
  /\ analysis' = AnalysisAfterMapping(analysis)
  /\ UNCHANGED <<pa11y, excel, runs, scraper, call, http>>

Next == AnalyzeWebsite \/ GenerateExcelReport \/ GenerateMarkdownReport

Spec == Init /\ [][Next]_vars

(***************************************************************************)
(* Calls one after the other on one server                                 *)
(*                                                                         *)
(* analyzeWCAG creates its WebScraper, WCAGAnalyzer and ExcelReporter; the  *)
(* objects of a call that has returned stay what they were, unreachable,   *)
(* until the next call makes its own.                                      *)
(***************************************************************************)

MaxRuns == 3   \* calls of analyze_wcag on one server

\* The scans of the repeated calls: one page with a rule reported twice as
\* an error, one page with a bare reference, two pages with the same rule.
RunShapes ==
  { <<[ok |-> TRUE, pairs |-> << <<HtmlcsCode, "error">>, <<HtmlcsCode, "error">> >>]>>,
    <<[ok |-> TRUE, pairs |-> << <<BareCode, "warning">> >>]>>,
    <<[ok |-> TRUE, pairs |-> << <<HtmlcsCode, "warning">> >>],
      [ok |-> TRUE, pairs |-> << <<HtmlcsCode, "error">> >>]>> }
RunSites == {Site(sh) : sh \in RunShapes}

\* The next call of analyze_wcag reaches analyzer.analyzeWebsite.
AnalyzeAgain ==
  /\ Len(runs) < MaxRuns
  /\ AnalyzeOneOf(RunSites)

\* The call returns its report (or its error): what it was given and what
\* it gave back.
Return ==
  /\ pc \in {"excel", "markdown", "failed"}
  /\ runs' = Append(runs,
       [input |-> pa11y, format |-> pc,
        violationsByCriteria |->
          IF pc = "excel" THEN excel.violationsByCriteria
          ELSE IF pc = "markdown" THEN markdown.violationsByCriteria
          ELSE <<>>,
        issuesByImpact |-> analysis.issuesByImpact])
  /\ pc' = "idle"
  /\ UNCHANGED <<pa11y, analysis, excel, markdown, scraper, call, http>>

RunsNext == AnalyzeAgain \/ GenerateExcelReport \/ GenerateMarkdownReport \/ Return

RunsSpec == Init /\ [][RunsNext]_vars

(***************************************************************************)
(* discoverPages, one request at a time                                    *)
(***************************************************************************)

OtherThanScraper == <<pc, pa11y, analysis, excel, markdown, runs, call, http>>

\* scraper.discoverPages(convertedUrl, max_depth, max_pages) up to the loop.
\* `requests` lists the pages handed to _extractLinks, with the depth of
\* the loop, the answer of the site and the links that came back.
DiscoverPages ==
  /\ scraper.phase = "new"
  /\ \E startUrl \in StartUrls, maxDepth \in 0..MaxMaxDepth, maxPages \in 0..MaxMaxPages :
       scraper' =
         [phase |-> "header", visited |-> {}, startUrl |-> startUrl,
          baseDomain |-> Normalize(startUrl).hostname,
          maxDepth |-> maxDepth, maxPages |-> maxPages,
          pages |-> <<startUrl>>, toCrawl |-> <<startUrl>>, nextToCrawl |-> <<>>,
          depth |-> 0, pos |-> 1, requests |-> <<>>, result |-> <<>>]
  /\ UNCHANGED OtherThanScraper

\* The loop over the depths goes on: const nextToCrawl = [].
EnterDepth ==
  /\ scraper.phase = "header"
  /\ WithinDepth(scraper.depth, scraper.maxDepth)
  /\ ~Break(scraper.pages, scraper.toCrawl, scraper.maxPages)
  /\ scraper' = [scraper EXCEPT !.phase = "inner", !.nextToCrawl = <<>>, !.pos = 1]
  /\ UNCHANGED OtherThanScraper

\* if (this.visited.has(page) || pages.length >= maxPages) continue
SkipPage ==
  /\ scraper.phase = "inner"
  /\ scraper.pos <= Len(scraper.toCrawl)
  /\ \/ scraper.toCrawl[scraper.pos] \in scraper.visited
     \/ Len(scraper.pages) >= scraper.maxPages
  /\ scraper' = [scraper EXCEPT !.pos = @ + 1]
  /\ UNCHANGED OtherThanScraper

\* The page is requested and its links are added.
ExtractLinks ==
  /\ scraper.phase = "inner"
  /\ scraper.pos <= Len(scraper.toCrawl)
  /\ scraper.toCrawl[scraper.pos] \notin scraper.visited
  /\ Len(scraper.pages) < scraper.maxPages
  /\ \E response \in Responses :
       LET page == scraper.toCrawl[scraper.pos]
           links == _extractLinks(response, page, scraper.baseDomain)
           added == AddLinks(links,
                      [pages |-> scraper.pages, nextToCrawl |-> scraper.nextToCrawl],
                      scraper.maxPages)
       IN scraper' =
            [scraper EXCEPT !.visited = @ \cup {page},
                            !.pages = added.pages,
                            !.nextToCrawl = added.nextToCrawl,
                            !.pos = @ + 1,
                            !.requests =
                               Append(@, [url |-> page, depth |-> scraper.depth,
                                          response |-> response, links |-> links])]
  /\ UNCHANGED OtherThanScraper

\* toCrawl = nextToCrawl; depth++
NextDepth ==
  /\ scraper.phase = "inner"
  /\ scraper.pos > Len(scraper.toCrawl)
  /\ scraper' = [scraper EXCEPT !.phase = "header", !.toCrawl = scraper.nextToCrawl,
                                !.depth = @ + 1]
  /\ UNCHANGED OtherThanScraper

\* The loop ends: return uniquePages.slice(0, maxPages).
ReturnPages ==
  /\ scraper.phase = "header"
  /\ \/ ~WithinDepth(scraper.depth, scraper.maxDepth)
     \/ Break(scraper.pages, scraper.toCrawl, scraper.maxPages)
  /\ scraper' = [scraper EXCEPT !.phase = "done",
                                !.result = ReturnedPages(scraper.pages, scraper.maxPages)]
  /\ UNCHANGED OtherThanScraper

CrawlNext ==
  \/ DiscoverPages \/ EnterDepth \/ SkipPage \/ ExtractLinks \/ NextDepth \/ ReturnPages

CrawlSpec == Init /\ [][CrawlNext]_vars

\* A call of discoverPages goes on: every await of the loop settles (the
\* request has a timeout, the delay ends).
CrawlFairSpec == CrawlSpec /\ WF_vars(CrawlNext)

(***************************************************************************)
(* One tool call, from the CallTool request to the response                *)
(***************************************************************************)

MaxCallPages == 2   \* pages discoverPages hands to analyzeWebsite

OtherThanCall == <<pc, pa11y, analysis, excel, markdown, runs, scraper, http>>

\* A CallTool request arrives: const { name, arguments: args } = request.params
CallTool ==
  /\ call.phase = "idle"
  /\ \E name \in ToolNames \cup {"no_such_tool"} :
       \E format \in (IF name = "analyze_wcag" THEN {"excel", "markdown"} ELSE {""}) :
         call' = [NoCall EXCEPT !.phase = "try", !.name = name, !.format = format]
  /\ UNCHANGED OtherThanCall

\* throw new Error(`Unknown tool: ${name}`)
UnknownTool ==
  /\ call.phase = "try"
  /\ call.name \notin ToolNames
  /\ call' = [call EXCEPT !.phase = "catch", !.thrown = <<"Unknown tool: ", call.name>>]
  /\ UNCHANGED OtherThanCall

\* checkHtmlCode, getWcagRules, suggestAria: a text, or a TypeError when the
\* arguments cannot be read.
StaticTool ==
  /\ call.phase = "try"
  /\ call.name \in StaticTools
  /\ \E ok \in BOOLEAN :
       call' = IF ok
               THEN [call EXCEPT !.phase = "return", !.result = TextResult(<<call.name>>)]
               ELSE [call EXCEPT !.phase = "catch", !.thrown = <<"TypeError">>]
  /\ UNCHANGED OtherThanCall

\* analyzeWCAG, step 1: scraper.discoverPages returns pages or throws; then
\* new WCAGAnalyzer(standard).
Discover ==
  /\ call.phase = "try"
  /\ call.name = "analyze_wcag"
  /\ \/ \E n \in 0..MaxCallPages :
          call' = [call EXCEPT !.phase = "analyzeWebsite", !.pages = n,
                               !.analyzer = NewAnalyzer]
     \/ call' = [call EXCEPT !.phase = "catch",
                             !.thrown = <<"Failed to discover pages: ", "Invalid URL">>]
  /\ UNCHANGED OtherThanCall

\* quickCheck: new WCAGAnalyzer(standard), then analyzePage of the one URL.
QuickCheck ==
  /\ call.phase = "try"
  /\ call.name = "quick_check"
  /\ call' = [call EXCEPT !.phase = "analyzePage", !.pages = 1, !.analyzer = NewAnalyzer]
  /\ UNCHANGED OtherThanCall

\* analyzePage inside the loop of analyzeWebsite: init, then the scan; a
\* failure of either is caught by the loop and counted in failedPages.
AnalyzeNextPage ==
  /\ call.phase = "analyzeWebsite"
  /\ call.pages > 0
  /\ \E launched \in BOOLEAN, scanned \in BOOLEAN :
       call' = IF init(call, launched).analyzer.browser # Null /\ scanned
               THEN [init(call, launched) EXCEPT !.pages = @ - 1, !.pagesAnalyzed = @ + 1]
               ELSE [init(call, launched) EXCEPT !.pages = @ - 1, !.failedPages = @ + 1]
  /\ UNCHANGED OtherThanCall

\* analyzePage called by quickCheck: a failure leaves the try block.
AnalyzeOnePage ==
  /\ call.phase = "analyzePage"
  /\ \E launched \in BOOLEAN, scanned \in BOOLEAN :
       call' = IF init(call, launched).analyzer.browser # Null /\ scanned
               THEN [init(call, launched) EXCEPT !.phase = "report", !.pages = 0,
                                                 !.pagesAnalyzed = 1]
               ELSE [init(call, launched) EXCEPT !.phase = "finally",
                                                 !.thrown = <<"Failed to analyze ", "url">>]
  /\ UNCHANGED OtherThanCall

\* The report of the call is generated, or its generation throws.
GenerateReport ==
  /\ \/ call.phase = "analyzeWebsite" /\ call.pages = 0
     \/ call.phase = "report"
  /\ \E ok \in BOOLEAN :
       call' = IF ok
               THEN [call EXCEPT !.phase = "finally",
                                 !.result = IF call.format = "excel" THEN ExcelResult
                                            ELSE TextResult(<<"report">>)]
               ELSE [call EXCEPT !.phase = "finally", !.thrown = <<"TypeError">>]
  /\ UNCHANGED OtherThanCall

\* finally { await analyzer.close(); }
Finally ==
  /\ call.phase = "finally"
  /\ call' = [close(call) EXCEPT !.phase = IF call.thrown = <<>> THEN "return" ELSE "catch"]
  /\ UNCHANGED OtherThanCall

\* The tool returned: the handler returns its result.
ReturnResult ==
  /\ call.phase = "return"
  /\ call' = [call EXCEPT !.phase = "responded", !.response = call.result]
  /\ UNCHANGED OtherThanCall

\* catch (error) of the handler
Catch ==
  /\ call.phase = "catch"
  /\ call' = [call EXCEPT !.phase = "responded", !.response = ErrorResult(call.thrown)]
  /\ UNCHANGED OtherThanCall

CallNext ==
  \/ CallTool \/ UnknownTool \/ StaticTool \/ Discover \/ QuickCheck \/ AnalyzeNextPage
  \/ AnalyzeOnePage \/ GenerateReport \/ Finally \/ ReturnResult \/ Catch

CallSpec == Init /\ [][CallNext]_vars

(***************************************************************************)
(* ExcelReporter.generateReport on an analysis of its own                  *)
(*                                                                         *)
(* The reporter reads affectedElements with `|| 1`: an issue may come       *)
(* without the field.  0 stands for the field being absent.                *)
(***************************************************************************)

MaxGiven == 3      \* issues of the analysis given to the reporter
MaxElements == 2   \* largest affectedElements of a given issue

GivenCodes == {<<HtmlcsCode, "error">>, <<HtmlcsCode, "warning">>, <<BareCode, "error">>,
               <<BareCode, "warning">>, <<PlainCode, "error">>}

GivenIssues ==
  {[code |-> ct[1], type |-> ct[2], message |-> <<"Message of ">> \o ct[1],
    selector |-> <<"#el">>, affectedElements |-> n] :
     ct \in GivenCodes, n \in 0..MaxElements}

GivenAnalyses ==
  {[baseUrl |-> 1, pagesAnalyzed |-> 1, totalIssues |-> Len(issues),
    pageAnalyses |-> <<[url |-> 1, issues |-> issues, totalIssues |-> Len(issues)]>>,
    issuesByImpact |-> ZeroImpact, failedPages |-> <<>>] :
     issues \in UNION {[1..n -> GivenIssues] : n \in 1..MaxGiven}}

\* reporter.generateReport(analysis, checklistType) is handed an analysis.
GivenAnalysis ==
  /\ pc = "idle"
  /\ analysis' \in GivenAnalyses
  /\ pc' = "analyzed"
  /\ UNCHANGED <<pa11y, excel, markdown, runs, scraper, call, http>>

ReporterNext == GivenAnalysis \/ GenerateExcelReport

ReporterSpec == Init /\ [][ReporterNext]_vars

(***************************************************************************)
(* The HTTP server: requests on /mcp and transports that close             *)
(***************************************************************************)

MaxSessions == 3   \* transports created by one server

\* The ids sessionIdGenerator gives, randomUUID(): the n-th transport gets
\* the n-th, all different.
SessionIds == <<"uuid-1", "uuid-2", "uuid-3", "uuid-4">>

\* The mcp-session-id of a request: not sent, empty, an id the server gave
\* or will give, an id it never gives, a name objects inherit.
Headers ==
  {NoSessionId, "", "uuid-0"} \cup PrototypeKeys
    \cup {SessionIds[n] : n \in 1..MaxSessions}

OtherThanHttp == <<pc, pa11y, analysis, excel, markdown, runs, scraper, call>>

\* An answered request: the status sent (0 when none is sent; 200 stands for
\* whatever the transport answers) and the transport that handled it (0 when
\* none did).
Answer(method, sessionId, isInitialize, status, transport) ==
  [method |-> method, sessionId |-> sessionId, isInitialize |-> isInitialize,
   status |-> status, transport |-> transport]

\* POST /mcp with the id of a stored transport: transport.handleRequest
\* answers.  Under an inherited name there is no handleRequest: the
\* TypeError is caught and answered with 500.
PostToSession ==
  \E sessionId \in Headers, isInitialize \in BOOLEAN :
    /\ Sent(sessionId)
    /\ Lookup(http.transports, sessionId).kind # "undefined"
    /\ http' =
         [http EXCEPT !.last =
            IF Lookup(http.transports, sessionId).kind = "transport"
            THEN Answer("POST", sessionId, isInitialize, 200,
                        Lookup(http.transports, sessionId).transport)
            ELSE Answer("POST", sessionId, isInitialize, 500, 0)]
    /\ UNCHANGED OtherThanHttp

\* POST /mcp without id, the body an initialize request: a transport and a
\* server are created and connected.
PostInitialize ==
  \E sessionId \in Headers :
    /\ ~(Sent(sessionId) /\ Lookup(http.transports, sessionId).kind # "undefined")
    /\ ~BadRequest(sessionId, TRUE)
    /\ Len(http.made) < MaxSessions
    /\ http' = [http EXCEPT !.made = Append(@, [sessionId |-> NoSessionId,
                                                state |-> "connecting",
                                                request |-> "initialize"]),
                            !.last = NoAnswer]
    /\ UNCHANGED OtherThanHttp

\* transport.handleRequest(req, res, req.body) of the new transport: it takes
\* its id from sessionIdGenerator and calls onsessioninitialized.
HandleInitialize ==
  \E t \in 1..Len(http.made) :
    /\ http.made[t].state = "connecting"
    /\ http' = [http EXCEPT !.made[t].sessionId = SessionIds[t],
                            !.made[t].state = "initialized",
                            !.transports = @ \cup {<<SessionIds[t], t>>},
                            !.last = Answer("POST", NoSessionId, TRUE, 200, t)]
    /\ UNCHANGED OtherThanHttp

\* POST /mcp, the else branch: 400.
PostBadRequest ==
  \E sessionId \in Headers, isInitialize \in BOOLEAN :
    /\ ~(Sent(sessionId) /\ Lookup(http.transports, sessionId).kind # "undefined")
    /\ BadRequest(sessionId, isInitialize)
    /\ http' = [http EXCEPT !.last = Answer("POST", sessionId, isInitialize, 400, 0)]
    /\ UNCHANGED OtherThanHttp

\* GET /mcp and DELETE /mcp without a stored transport: 400.
RejectGetOrDelete ==
  \E method \in {"GET", "DELETE"}, sessionId \in Headers :
    /\ ~Sent(sessionId) \/ Lookup(http.transports, sessionId).kind = "undefined"
    /\ http' = [http EXCEPT !.last = Answer(method, sessionId, FALSE, 400, 0)]
    /\ UNCHANGED OtherThanHttp

\* GET /mcp with the id of a stored transport: the transport opens the
\* stream.
GetStream ==
  \E sessionId \in Headers :
    /\ Sent(sessionId)
    /\ Lookup(http.transports, sessionId).kind = "transport"
    /\ http' = [http EXCEPT !.last =
                  Answer("GET", sessionId, FALSE, 200,
                         Lookup(http.transports, sessionId).transport)]
    /\ UNCHANGED OtherThanHttp

\* DELETE /mcp with the id of a stored transport: the transport ends the
\* session and closes, which calls onclose.
DeleteSession ==
  \E sessionId \in Headers :
    /\ Sent(sessionId)
    /\ Lookup(http.transports, sessionId).kind = "transport"
    /\ LET t == Lookup(http.transports, sessionId).transport
       IN http' = [http EXCEPT !.made[t].state = "closed",
                               !.transports = onclose(@, http.made[t].sessionId),
                               !.last = Answer("DELETE", sessionId, FALSE, 200, t)]
    /\ UNCHANGED OtherThanHttp

\* GET or DELETE /mcp under an inherited name: the handler has no try, the
\* TypeError leaves it; the framework answers 500 or does not answer.
GetOrDeleteInherited ==
  \E method \in {"GET", "DELETE"}, sessionId \in Headers, status \in {500, 0} :
    /\ Sent(sessionId)
    /\ Lookup(http.transports, sessionId).kind = "inherited"
    /\ http' = [http EXCEPT !.last = Answer(method, sessionId, FALSE, status, 0)]
    /\ UNCHANGED OtherThanHttp

\* A transport closes for another reason than a DELETE (its server is
\* closed): onclose.
TransportCloses ==
  \E t \in 1..Len(http.made) :
    /\ http.made[t].state = "initialized"
    /\ http' = [http EXCEPT !.made[t].state = "closed",
                            !.transports = onclose(@, http.made[t].sessionId),
                            !.last = NoAnswer]
    /\ UNCHANGED OtherThanHttp

HttpNext ==
  \/ PostToSession \/ PostInitialize \/ HandleInitialize \/ PostBadRequest
  \/ RejectGetOrDelete \/ GetStream \/ DeleteSession \/ GetOrDeleteInherited
  \/ TransportCloses

HttpSpec == Init /\ [][HttpNext]_vars

(***************************************************************************)
(* Vocabulary of the properties                                            *)
(***************************************************************************)

\* The issues handed to the report: every entry of every analyzed page.
ReportedIssues == AllPageIssues(analysis.pageAnalyses)

IssuesOf(seq) == {seq[k] : k \in 1..Len(seq)}

AllDigits(s, from, to) == from <= to /\ \A k \in from..to : s[k] \in Digits

\* Where a number that starts at `from` and is followed by `lit` ends.
NumberBefore(s, from, lit) ==
  {e \in from..(Len(s) - 1) : AllDigits(s, from, e) /\ s[e + 1] = lit}

\* Where a number that starts at `from` and is followed by no digit ends.
NumberAtEnd(s, from) ==
  {e \in from..Len(s) : AllDigits(s, from, e) /\ (e = Len(s) \/ s[e + 1] \notin Digits)}

\* The readings <<G1, G2, S1, S2, S3>> of the text from position i as
\* Guideline<G1>_<G2>.<S1>_<S2>_<S3>.
GuidelineReadings(s, i) ==
  IF ~Lit(s, i, "Guideline") THEN {}
  ELSE UNION {UNION {UNION {UNION {
         {<<Slice(s, i + 1, e1), Slice(s, e1 + 2, e2), Slice(s, e2 + 2, e3),
            Slice(s, e3 + 2, e4), Slice(s, e4 + 2, e5)>> :
            e5 \in NumberAtEnd(s, e4 + 2)} :
          e4 \in NumberBefore(s, e3 + 2, "_")} :
          e3 \in NumberBefore(s, e2 + 2, "_")} :
          e2 \in NumberBefore(s, e1 + 2, ".")} :
          e1 \in NumberBefore(s, i + 1, "_")}

\* The readings of the text from position i as
\* Principle<P>.Guideline<G1>_<G2>.<S1>_<S2>_<S3>, P one digit.
StructuredReadings(s, i) ==
  IF Lit(s, i, "Principle") /\ AllDigits(s, i + 1, i + 1) /\ Lit(s, i + 2, ".")
  THEN GuidelineReadings(s, i + 3)
  ELSE {}

\* The readings <<N1, N2, N3>> of the text from position i as N.N.N.
BareReadings(s, i) ==
  UNION {UNION {
    {<<Slice(s, i, e1), Slice(s, e1 + 2, e2), Slice(s, e2 + 2, e3)>> :
       e3 \in NumberAtEnd(s, e2 + 2)} :
     e2 \in NumberBefore(s, e1 + 2, ".")} :
     e1 \in NumberBefore(s, i, ".")}

StructuredStarts(code) == {i \in 1..Len(code) : StructuredReadings(code, i) # {}}
BareStarts(code) == {i \in 1..Len(code) : BareReadings(code, i) # {}}

HasCode(issue) == issue.code # UndefinedCode
MatchesStructured(issue) == HasCode(issue) /\ StructuredStarts(issue.code) # {}
ContainsBare(issue) == HasCode(issue) /\ BareStarts(issue.code) # {}

\* Where a criterion map of the spreadsheet path holds an entry made from an
\* issue: <<bucket, position>>.  The selector of an issue names the element
\* of its first occurrence, which no other issue of the call shares.
ExcelPlaces(map, issue) ==
  UNION {{<<b, k>> : k \in {k \in 1..Len(map[b].issues) :
                              /\ map[b].issues[k].selector = issue.selector
                              /\ map[b].issues[k].type = issue.type
                              /\ map[b].issues[k].message = issue.message
                              /\ map[b].issues[k].affectedElements = issue.affectedElements}} :
         b \in 1..Len(map)}

\* The same for a criterion map of the Markdown path.
MarkdownPlaces(map, issue) ==
  UNION {{<<b, k>> : k \in {k \in 1..Len(map[b].violations) :
                              /\ map[b].violations[k].selector = issue.selector
                              /\ map[b].violations[k].type = issue.type
                              /\ map[b].violations[k].message = issue.message
                              /\ map[b].violations[k].count = issue.affectedElements}} :
         b \in 1..Len(map)}

\* The issue has one entry in the spreadsheet's map, in the bucket of `id`.
ExcelFiledOnlyUnder(issue, id) ==
  LET places == ExcelPlaces(excel.violationsByCriteria, issue)
  IN /\ Cardinality(places) = 1
     /\ \A pl \in places : excel.violationsByCriteria[pl[1]].criterion = id

(***************************************************************************)
(* Properties                                                              *)
(***************************************************************************)

\* C1: in the spreadsheet's map, an issue whose code reads as
\* Principle<P>.Guideline<G1>_<G2>.<S1>_<S2>_<S3> (leftmost reading) has its
\* one entry in the bucket "S1.S2.S3", whatever P, G1 and G2 are.
C1_StructuredFiledUnderSC ==
  pc = "excel" =>
    \A issue \in IssuesOf(ReportedIssues) :
      MatchesStructured(issue) =>
        \A r \in StructuredReadings(issue.code, Min(StructuredStarts(issue.code))) :
          ExcelFiledOnlyUnder(issue, Dotted(r[3], r[4], r[5]))

\* A structured code whose guideline numbers differ from its success
\* criterion has been filed.
C1_Witness ==
  /\ pc = "excel"
  /\ \E issue \in IssuesOf(ReportedIssues) :
       /\ MatchesStructured(issue)
       /\ \E r \in StructuredReadings(issue.code, Min(StructuredStarts(issue.code))) :
            /\ r[1] # r[3] /\ r[2] # r[4]
            /\ ExcelFiledOnlyUnder(issue, Dotted(r[3], r[4], r[5]))

\* C2: in the spreadsheet's map, an issue whose code does not read as the
\* structured pattern but contains N.N.N has its one entry in the bucket of
\* the leftmost N.N.N.
C2_BareFiledUnderLeftmost ==
  pc = "excel" =>
    \A issue \in IssuesOf(ReportedIssues) :
      (~MatchesStructured(issue) /\ ContainsBare(issue)) =>
        \A r \in BareReadings(issue.code, Min(BareStarts(issue.code))) :
          ExcelFiledOnlyUnder(issue, Dotted(r[1], r[2], r[3]))

\* A code with two different N.N.N in it has been filed under the left one.
C2_Witness ==
  /\ pc = "excel"
  /\ \E issue \in IssuesOf(ReportedIssues) :
       /\ ~MatchesStructured(issue) /\ ContainsBare(issue)
       /\ \E i, j \in BareStarts(issue.code) :
            /\ i < j
            /\ BareReadings(issue.code, i) # BareReadings(issue.code, j)
       /\ \E r \in BareReadings(issue.code, Min(BareStarts(issue.code))) :
            ExcelFiledOnlyUnder(issue, Dotted(r[1], r[2], r[3]))

\* The spreadsheet's half of C3: an issue whose code reads as neither
\* pattern has no entry, and when no issue reads as either the map is empty.
C3_ExcelUnmatchedExcluded ==
  pc = "excel" =>
    /\ \A issue \in IssuesOf(ReportedIssues) :
         (HasCode(issue) /\ ~MatchesStructured(issue) /\ ~ContainsBare(issue)) =>
           ExcelPlaces(excel.violationsByCriteria, issue) = {}
    /\ (\A issue \in IssuesOf(ReportedIssues) :
          HasCode(issue) /\ ~MatchesStructured(issue) /\ ~ContainsBare(issue)) =>
         excel.violationsByCriteria = <<>>

\* C3: in both mappings, an issue whose code reads as neither the structured
\* pattern nor N.N.N creates no bucket and adds no entry: when no issue reads
\* as either, the criterion map is empty.
C3_UnmatchedExcluded ==
  /\ C3_ExcelUnmatchedExcluded
  /\ pc = "markdown" =>
       /\ \A issue \in IssuesOf(ReportedIssues) :
            (HasCode(issue) /\ ~MatchesStructured(issue) /\ ~ContainsBare(issue)) =>
              MarkdownPlaces(markdown.violationsByCriteria, issue) = {}
       /\ (\A issue \in IssuesOf(ReportedIssues) :
             HasCode(issue) /\ ~MatchesStructured(issue) /\ ~ContainsBare(issue)) =>
            markdown.violationsByCriteria = <<>>

\* C4: the Markdown path's mapping and the spreadsheet's mapping give, for
\* the same analysis, the same criterion ids, and under each id the same
\* sequence of issues (type, message, selector, affected-element count).
C4_MappingsAgree ==
  pc = "markdown" =>
    LET x == Excel_mapViolationsToWCAG(analysis)
        m == markdown.violationsByCriteria
    IN /\ {x[b].criterion : b \in 1..Len(x)} = {m[b].criteria : b \in 1..Len(m)}
       /\ \A b \in 1..Len(x), c \in 1..Len(m) :
            x[b].criterion = m[c].criteria =>
              x[b].issues =
                [k \in 1..Len(m[c].violations) |->
                   [type |-> m[c].violations[k].type,
                    message |-> m[c].violations[k].message,
                    selector |-> m[c].violations[k].selector,
                    affectedElements |-> m[c].violations[k].count]]

\* The raw issues pa11y reported for the URL of an analyzed page.
RawOf(page) == pa11y.scan[page.url].issues

\* How many raw issues of a page carry a code and a type.
Occurrences(raw, code, type) ==
  Cardinality({k \in 1..Len(raw) : raw[k].code = code /\ raw[k].type = type})

HasType(entries, t) == \E k \in 1..Len(entries) : entries[k].type = t

\* The rows of the worksheet that carry a criterion.
RowsOf(criterion) ==
  {r \in 1..Len(TemplateRows) : RowCriterion(TemplateRows[r]) = criterion}

\* The summary lines of the Markdown report for a criterion.
LinesOf(criteria) ==
  {k \in 1..Len(markdown.lines) : markdown.lines[k].criteria = criteria}

\* C6: a bucket with an issue of type error is classified as not compliant
\* in both reports, whatever else it holds and in whatever order.
C6_ErrorPrecedence ==
  /\ pc = "excel" =>
       \A b \in 1..Len(excel.violationsByCriteria) :
         HasType(excel.violationsByCriteria[b].issues, "error") =>
           \A r \in RowsOf(excel.violationsByCriteria[b].criterion) :
             excel.cells[r].value = "Ikke oppfylt"
  /\ pc = "markdown" =>
       \A b \in 1..Len(markdown.violationsByCriteria) :
         HasType(markdown.violationsByCriteria[b].violations, "error") =>
           /\ LinesOf(markdown.violationsByCriteria[b].criteria) # {}
           /\ \A k \in LinesOf(markdown.violationsByCriteria[b].criteria) :
                markdown.lines[k].status \in {"Error", "Feil"}

\* A bucket of a row of the worksheet that got two warnings and then an error.
C6_Witness ==
  /\ pc = "excel"
  /\ \E b \in 1..Len(excel.violationsByCriteria) :
       LET issues == excel.violationsByCriteria[b].issues
       IN /\ Len(issues) = 3
          /\ issues[1].type = "warning" /\ issues[2].type = "warning"
          /\ issues[3].type = "error"
          /\ \E r \in RowsOf(excel.violationsByCriteria[b].criterion) :
               excel.cells[r].value = "Ikke oppfylt"

\* The spreadsheet's half of C7: the three-way rule.
C7_ExcelThreeWay ==
  pc = "excel" =>
    \A b \in 1..Len(excel.violationsByCriteria) :
      \A r \in RowsOf(excel.violationsByCriteria[b].criterion) :
        excel.cells[r].value =
          IF HasType(excel.violationsByCriteria[b].issues, "error") THEN "Ikke oppfylt"
          ELSE IF HasType(excel.violationsByCriteria[b].issues, "warning") THEN "Advarsel"
          ELSE "Oppfylt"

\* C7: every bucket is classified, in both reports, not compliant with an
\* error, else warning with a warning, else compliant; a bucket with neither
\* is not reported as warning.
C7_ThreeWayRule ==
  /\ C7_ExcelThreeWay
  /\ pc = "markdown" =>
       \A b \in 1..Len(markdown.violationsByCriteria) :
         \A k \in LinesOf(markdown.violationsByCriteria[b].criteria) :
           LET violations == markdown.violationsByCriteria[b].violations
           IN IF HasType(violations, "error")
              THEN markdown.lines[k].status \in {"Error", "Feil"}
              ELSE IF HasType(violations, "warning")
              THEN markdown.lines[k].status \in {"Warning", "Advarsel"}
              ELSE markdown.lines[k].status \notin {"Error", "Feil", "Warning", "Advarsel"}

\* How many of the issues have a type of the set.
TypedIn(issues, types) == Cardinality({k \in 1..Len(issues) : issues[k].type \in types})

Tally(impact) == impact.critical + impact.serious + impact.moderate + impact.minor

\* C8 as stated: critical counts the issues whose type is 'error', serious
\* those whose type is 'warning', moderate all the others, minor is 0.
C8_ImpactByExactType ==
  pc # "idle" =>
    /\ analysis.issuesByImpact.critical = TypedIn(ReportedIssues, {"error"})
    /\ analysis.issuesByImpact.serious = TypedIn(ReportedIssues, {"warning"})
    /\ analysis.issuesByImpact.moderate =
         Len(ReportedIssues) - TypedIn(ReportedIssues, {"error", "warning"})
    /\ analysis.issuesByImpact.minor = 0

\* The spellings of a type word in any letter case, among the types of the
\* model.
ErrorSpellings == {"error", "ERROR"}
WarningSpellings == {"warning", "WARNING"}

\* C8 as amended: critical counts the issues whose type is 'error' in any
\* letter case, serious those whose type is 'warning' in any letter case,
\* moderate all the others (a missing type among them), minor is 0.
C8_ImpactByTypeIgnoringCase ==
  pc # "idle" =>
    /\ analysis.issuesByImpact.critical = TypedIn(ReportedIssues, ErrorSpellings)
    /\ analysis.issuesByImpact.serious = TypedIn(ReportedIssues, WarningSpellings)
    /\ analysis.issuesByImpact.moderate =
         Len(ReportedIssues) - TypedIn(ReportedIssues, ErrorSpellings \cup WarningSpellings)
    /\ analysis.issuesByImpact.minor = 0

\* A tally of an upper-case error, an upper-case warning and an issue with
\* no type.
C8_Witness ==
  /\ pc = "analyzed"
  /\ TypedIn(ReportedIssues, {"ERROR"}) = 1
  /\ TypedIn(ReportedIssues, {"WARNING"}) = 1
  /\ TypedIn(ReportedIssues, {UndefinedType}) = 1
  /\ analysis.issuesByImpact = [critical |-> 1, serious |-> 1, moderate |-> 1, minor |-> 0]

\* The raw issues pa11y reported on the analyzed pages from the j-th on.
RECURSIVE RawCount(_)
RawCount(j) ==
  IF j > Len(analysis.pageAnalyses) THEN 0
  ELSE Len(RawOf(analysis.pageAnalyses[j])) + RawCount(j + 1)

\* The (code, type) pairs among the raw issues of the analyzed pages from the
\* j-th on, counted page by page.
RECURSIVE PairCount(_)
PairCount(j) ==
  IF j > Len(analysis.pageAnalyses) THEN 0
  ELSE Cardinality({<<r.code, r.type>> : r \in IssuesOf(RawOf(analysis.pageAnalyses[j]))})
         + PairCount(j + 1)

\* C9 as stated: every raw issue of the analyzed pages counts 1, so the
\* four counts add up to the number of raw issues.
C9_TallyOverRawIssues ==
  pc # "idle" => Tally(analysis.issuesByImpact) = RawCount(1)

\* C9 as amended: the tally runs over the pages' merged entries, so the four
\* counts add up to the number of distinct (code, type) pairs of each
\* analyzed page, summed over the pages, which is totalIssues.
C9_TallyOverMergedEntries ==
  pc # "idle" =>
    /\ Tally(analysis.issuesByImpact) = PairCount(1)
    /\ analysis.totalIssues = PairCount(1)

\* A run of several URLs, one failed, one with repeated raw issues.
C9_Witness ==
  /\ pc = "analyzed"
  /\ Len(pa11y.urls) >= 2
  /\ analysis.failedPages # <<>>
  /\ \E j \in 1..Len(analysis.pageAnalyses) :
       Len(RawOf(analysis.pageAnalyses[j])) > Len(analysis.pageAnalyses[j].issues)
  /\ Tally(analysis.issuesByImpact) < RawCount(1)

\* No raw issue was reported in the call.
NothingFound == \A u \in 1..Len(pa11y.scan) : pa11y.scan[u].issues = <<>>

\* C10: with no pages, or no issue on any page, the criterion map is empty
\* and every count of issuesByImpact is 0.
C10_EmptyInput ==
  (pc # "idle" /\ NothingFound) =>
    /\ analysis.issuesByImpact = [critical |-> 0, serious |-> 0, moderate |-> 0, minor |-> 0]
    /\ pc = "excel" => excel.violationsByCriteria = <<>>
    /\ pc = "markdown" => markdown.violationsByCriteria = <<>>

\* A spreadsheet report of pages that were all scanned and had no issue.
C10_Witness ==
  /\ pc = "excel"
  /\ Len(pa11y.urls) >= 2
  /\ analysis.pagesAnalyzed = Len(pa11y.urls)
  /\ NothingFound
  /\ excel.violationsByCriteria = <<>>

(***************************************************************************)
(* Relations between calls                                                 *)
(***************************************************************************)

Reverse(seq) == [k \in 1..Len(seq) |-> seq[Len(seq) + 1 - k]]

\* The criterion ids of a criterion map of the spreadsheet path.
CriterionIds(map) == {map[b].criterion : b \in 1..Len(map)}

\* errorCount, warningCount and totalAffectedElements of a bucket.
BucketCounts(bucket) ==
  [errorCount |-> CountType(bucket.issues, "error"),
   warningCount |-> CountType(bucket.issues, "warning"),
   totalAffectedElements |-> TotalElements(bucket.issues)]

\* Two criterion maps have the same ids and, under each id, the same counts.
SameCounts(x, y) ==
  /\ CriterionIds(x) = CriterionIds(y)
  /\ \A b \in 1..Len(x), c \in 1..Len(y) :
       x[b].criterion = y[c].criterion => BucketCounts(x[b]) = BucketCounts(y[c])

\* The analysis of the same scans with the URLs in the opposite order.
OppositeOrder == analyzeWebsite(Reverse(pa11y.urls), pa11y.scan)

\* C11: the pages of a call taken in the opposite order give the same
\* criterion ids, under each id the same errorCount, warningCount and
\* totalAffectedElements, and the same issuesByImpact.
C11_PageOrderInsensitive ==
  pc = "excel" =>
    /\ SameCounts(excel.violationsByCriteria, Excel_mapViolationsToWCAG(OppositeOrder))
    /\ OppositeOrder.issuesByImpact = analysis.issuesByImpact

\* Two pages with different issues of one criterion, an error among them:
\* the bucket's entries come in another order when the pages are swapped.
C11_Witness ==
  /\ pc = "excel"
  /\ Len(analysis.pageAnalyses) = 2
  /\ analysis.pageAnalyses[1].issues # <<>>
  /\ analysis.pageAnalyses[2].issues # <<>>
  /\ \E b \in 1..Len(excel.violationsByCriteria) :
       LET y == Excel_mapViolationsToWCAG(OppositeOrder)
           bucket == excel.violationsByCriteria[b]
       IN /\ BucketCounts(bucket).errorCount >= 1
          /\ BucketCounts(bucket).warningCount >= 1
          /\ \E c \in 1..Len(y) :
               /\ y[c].criterion = bucket.criterion
               /\ y[c].issues # bucket.issues
               /\ BucketCounts(y[c]) = BucketCounts(bucket)

\* The raw issues of the analyzed pages from the j-th on, in page order.
RECURSIVE RawFrom(_)
RawFrom(j) ==
  IF j > Len(analysis.pageAnalyses) THEN <<>>
  ELSE RawOf(analysis.pageAnalyses[j]) \o RawFrom(j + 1)

\* The analysis of the same raw issues reported as the issues of one page.
AsOnePage == analyzeWebsite(<<1>>, <<[ok |-> TRUE, issues |-> RawFrom(1)]>>)

\* A (code, type) pair has raw issues on two pages of the call.
PairSplit ==
  \E i, j \in 1..Len(analysis.pageAnalyses) :
    /\ i # j
    /\ \E r \in IssuesOf(RawOf(analysis.pageAnalyses[i])),
          s \in IssuesOf(RawOf(analysis.pageAnalyses[j])) :
         r.code = s.code /\ r.type = s.type

\* C12 as stated: the raw issues of a call give, as one issue set and split
\* across the pages, the same criterion ids, the same entries and counts
\* under each id, and the same issuesByImpact.
C12_SplitIdentical ==
  pc = "excel" =>
    LET y == Excel_mapViolationsToWCAG(AsOnePage)
        x == excel.violationsByCriteria
    IN /\ SameCounts(x, y)
       /\ \A b \in 1..Len(x), c \in 1..Len(y) :
            x[b].criterion = y[c].criterion => x[b].issues = y[c].issues
       /\ AsOnePage.issuesByImpact = analysis.issuesByImpact

\* C12 as amended: the criterion ids and each criterion's
\* totalAffectedElements are the same for every split; the entries, their
\* counts and issuesByImpact are the same when no (code, type) pair has raw
\* issues on two pages.
C12_SplitAgreesUpToMerging ==
  pc = "excel" =>
    LET y == Excel_mapViolationsToWCAG(AsOnePage)
        x == excel.violationsByCriteria
    IN /\ CriterionIds(x) = CriterionIds(y)
       /\ \A b \in 1..Len(x), c \in 1..Len(y) :
            x[b].criterion = y[c].criterion =>
              BucketCounts(x[b]).totalAffectedElements
                = BucketCounts(y[c]).totalAffectedElements
       /\ ~PairSplit =>
            /\ x = y
            /\ AsOnePage.issuesByImpact = analysis.issuesByImpact

\* Two pages that each report the same rule with the same type: two entries
\* in the bucket where the single issue set gives one, the same elements.
C12_Witness ==
  /\ pc = "excel"
  /\ Len(analysis.pageAnalyses) = 2
  /\ PairSplit
  /\ \E b \in 1..Len(excel.violationsByCriteria) :
       LET y == Excel_mapViolationsToWCAG(AsOnePage)
           bucket == excel.violationsByCriteria[b]
       IN \E c \in 1..Len(y) :
            /\ y[c].criterion = bucket.criterion
            /\ Len(bucket.issues) = 2 /\ Len(y[c].issues) = 1
            /\ BucketCounts(bucket).totalAffectedElements = 2
            /\ BucketCounts(y[c]).totalAffectedElements = 2
  /\ Tally(AsOnePage.issuesByImpact) < Tally(analysis.issuesByImpact)

(***************************************************************************)
(* Malformed issues, the inputs of a call, repeated calls                  *)
(***************************************************************************)

NoCode(issue) == issue.code = UndefinedCode
NoType(issue) == issue.type = UndefinedType

\* The text reads as Guideline<G1>_<G2>.<S1>_<S2>_<S3> somewhere.
MatchesGuideline(issue) ==
  HasCode(issue) /\ \E i \in 1..Len(issue.code) : GuidelineReadings(issue.code, i) # {}

\* The spreadsheet's and the tally's part of C13: an issue with no code has
\* no entry, an issue with no type is counted as neither error nor warning,
\* and every other issue is still filed and counted.
C13_ExcelAndTallyTolerant ==
  /\ pc # "idle" =>
       /\ Tally(analysis.issuesByImpact) = Len(ReportedIssues)
       /\ analysis.issuesByImpact.critical + analysis.issuesByImpact.serious
            = TypedIn(ReportedIssues, ErrorSpellings \cup WarningSpellings)
  /\ pc = "excel" =>
       \A issue \in IssuesOf(ReportedIssues) :
         /\ NoCode(issue) => ExcelPlaces(excel.violationsByCriteria, issue) = {}
         /\ (MatchesStructured(issue) \/ ContainsBare(issue)) =>
              ExcelPlaces(excel.violationsByCriteria, issue) # {}
         /\ NoType(issue) =>
              \A p \in ExcelPlaces(excel.violationsByCriteria, issue) :
                LET alone == <<excel.violationsByCriteria[p[1]].issues[p[2]]>>
                IN CountType(alone, "error") = 0 /\ CountType(alone, "warning") = 0

\* C13: no call is abandoned because of an issue with no code or no type;
\* in both mappings an issue with no code has no entry and the issues after
\* it are still filed, and an issue with no type is counted as neither error
\* nor warning.
C13_NeverThrows ==
  /\ C13_ExcelAndTallyTolerant
  /\ pc # "failed"
  /\ pc = "markdown" =>
       \A issue \in IssuesOf(ReportedIssues) :
         /\ NoCode(issue) => MarkdownPlaces(markdown.violationsByCriteria, issue) = {}
         /\ MatchesGuideline(issue) =>
              MarkdownPlaces(markdown.violationsByCriteria, issue) # {}

FirstRaw(raw, code, type) ==
  Min({k \in 1..Len(raw) : raw[k].code = code /\ raw[k].type = type})

\* The page and the position in the page of the n-th reported issue.
RECURSIVE PageOf(_, _)
PageOf(n, j) ==
  IF n <= Len(analysis.pageAnalyses[j].issues) THEN <<j, n>>
  ELSE PageOf(n - Len(analysis.pageAnalyses[j].issues), j + 1)

\* C16: the entries of a bucket are in encounter order.  Of two entries of
\* one bucket, the one of the earlier page, or of the earlier position in
\* the same page, comes first; a page's issues are in the order in which
\* their (code, type) pairs first occur in the scan.
C16_EncounterOrder ==
  /\ pc # "idle" =>
       \A j \in 1..Len(analysis.pageAnalyses) :
         LET page == analysis.pageAnalyses[j]
         IN \A m, n \in 1..Len(page.issues) :
              m < n => FirstRaw(RawOf(page), page.issues[m].code, page.issues[m].type)
                         < FirstRaw(RawOf(page), page.issues[n].code, page.issues[n].type)
  /\ pc = "excel" =>
       \A m, n \in 1..Len(ReportedIssues) :
         (PageOf(m, 1)[1] < PageOf(n, 1)[1]
            \/ (PageOf(m, 1)[1] = PageOf(n, 1)[1] /\ PageOf(m, 1)[2] < PageOf(n, 1)[2])) =>
           \A p \in ExcelPlaces(excel.violationsByCriteria, ReportedIssues[m]),
              q \in ExcelPlaces(excel.violationsByCriteria, ReportedIssues[n]) :
             p[1] = q[1] => p[2] < q[2]

\* A bucket of three entries: two from the first page, in the page's order,
\* then one from the second page.
C16_Witness ==
  /\ pc = "excel"
  /\ Len(analysis.pageAnalyses) = 2
  /\ Len(analysis.pageAnalyses[1].issues) = 2
  /\ Len(analysis.pageAnalyses[2].issues) = 1
  /\ \E b \in 1..Len(excel.violationsByCriteria) :
       /\ Len(excel.violationsByCriteria[b].issues) = 3
       /\ \A k \in 1..3 :
            ExcelPlaces(excel.violationsByCriteria, ReportedIssues[k]) = {<<b, k>>}

\* The code resolves to a criterion id: it reads as the structured pattern
\* or holds N.N.N.
Resolves(issue) == MatchesStructured(issue) \/ ContainsBare(issue)

\* The entries of the buckets from the b-th on.
RECURSIVE EntriesFrom(_, _)
EntriesFrom(map, b) ==
  IF b > Len(map) THEN 0 ELSE Len(map[b].issues) + EntriesFrom(map, b + 1)

\* C17: in the spreadsheet's criterion map, an issue whose code resolves has
\* one entry in one bucket, an issue whose code does not resolve has none,
\* no two buckets have the same key, no bucket is empty, and there are as
\* many entries as issues with a code that resolves.
C17_OneBucketPerIssue ==
  pc = "excel" =>
    LET map == excel.violationsByCriteria
    IN /\ \A n \in 1..Len(ReportedIssues) :
            Cardinality(ExcelPlaces(map, ReportedIssues[n]))
              = IF Resolves(ReportedIssues[n]) THEN 1 ELSE 0
       /\ \A b, c \in 1..Len(map) : map[b].criterion = map[c].criterion => b = c
       /\ \A b \in 1..Len(map) : map[b].issues # <<>>
       /\ EntriesFrom(map, 1)
            = Cardinality({n \in 1..Len(ReportedIssues) : Resolves(ReportedIssues[n])})

\* Three issues: two that resolve to one criterion, one that does not
\* resolve; one bucket of two entries.
C17_Witness ==
  /\ pc = "excel"
  /\ Len(ReportedIssues) = 3
  /\ Cardinality({n \in 1..3 : Resolves(ReportedIssues[n])}) = 2
  /\ Len(excel.violationsByCriteria) = 1
  /\ Len(excel.violationsByCriteria[1].issues) = 2

(***************************************************************************)
(* The list discoverPages returns                                          *)
(***************************************************************************)

Returned == scraper.phase = "done"

ResultUrls == {scraper.result[k] : k \in 1..Len(scraper.result)}

RequestLinks(k) ==
  {scraper.requests[k].links[j] : j \in 1..Len(scraper.requests[k].links)}

\* C18: discoverPages returns at most maxPages URLs, whatever the pages of
\* the site link to (for every maxPages >= 0, so for every maxPages >= 1).
C18_AtMostMaxPages ==
  Returned => Len(scraper.result) <= scraper.maxPages

\* A full list: some page linked to a same-domain URL that no longer fitted.
C18_Witness ==
  /\ Returned
  /\ scraper.maxPages >= 1
  /\ Len(scraper.result) = scraper.maxPages
  /\ \E k \in 1..Len(scraper.requests) : ~(RequestLinks(k) \subseteq ResultUrls)

MaxHrefs == 3   \* most hrefs in one answer of Responses

HttpScheme(url) == url.protocol = "http:" \/ url.protocol = "https:"

\* The hrefs of the answered pages that resolve to a URL of another host or
\* of another scheme.
ForeignLinks ==
  {Resolve(scraper.requests[k].response.hrefs[j], scraper.requests[k].url) :
     <<k, j>> \in {kj \in (1..Len(scraper.requests)) \X (1..MaxHrefs) :
                     /\ scraper.requests[kj[1]].response.status = 200
                     /\ kj[2] <= Len(scraper.requests[kj[1]].response.hrefs)
                     /\ scraper.requests[kj[1]].response.hrefs[kj[2]].kind # "invalid"
                     /\ LET u == Resolve(scraper.requests[kj[1]].response.hrefs[kj[2]],
                                         scraper.requests[kj[1]].url)
                        IN u.hostname # scraper.startUrl.hostname \/ ~HttpScheme(u)}}

\* C19: every URL discoverPages returns has the hostname of the seed; a link
\* to another hostname, or with a scheme other than http and https, is never
\* put in the list of pages and never requested.
C19_SameHostname ==
  scraper.phase # "new" =>
    /\ \A k \in 1..Len(scraper.pages) :
         /\ scraper.pages[k].hostname = scraper.startUrl.hostname
         /\ HttpScheme(scraper.pages[k])
         /\ scraper.pages[k] \notin ForeignLinks
    /\ \A k \in 1..Len(scraper.requests) :
         /\ scraper.requests[k].url.hostname = scraper.startUrl.hostname
         /\ HttpScheme(scraper.requests[k].url)
         /\ scraper.requests[k].url \notin ForeignLinks
    /\ \A u \in ResultUrls : u.hostname = scraper.startUrl.hostname /\ u \notin ForeignLinks

\* Pages of the site linked to another host and to an ftp URL of the same
\* host, and the crawl went on to a page found next to them.
C19_Witness ==
  /\ Returned
  /\ \E u \in ForeignLinks : u.hostname # scraper.startUrl.hostname
  /\ \E u \in ForeignLinks : u.hostname = scraper.startUrl.hostname /\ ~HttpScheme(u)
  /\ Len(scraper.result) >= 3
  /\ Len(scraper.requests) >= 2

\* The URLs at most k links away from the seed, by the links of the pages
\* that answered.
RECURSIVE Within(_)
Within(k) ==
  IF k = 0 THEN {scraper.startUrl}
  ELSE Within(k - 1) \cup
       UNION {RequestLinks(j) : j \in {i \in 1..Len(scraper.requests) :
                                         scraper.requests[i].url \in Within(k - 1)}}

RequestedUrls == {scraper.requests[k].url : k \in 1..Len(scraper.requests)}

\* C20: discoverPages respects maxDepth: every URL of the list is the seed or
\* at most maxDepth links away from it; a page is requested for its links
\* only when it is fewer than maxDepth links away; with maxDepth = 0 nothing
\* is requested and nothing but the seed is returned.
C20_DepthRespected ==
  scraper.phase # "new" =>
    /\ \A k \in 1..Len(scraper.requests) :
         /\ scraper.requests[k].depth < scraper.maxDepth
         /\ scraper.requests[k].url \in Within(scraper.requests[k].depth)
    /\ \A k \in 1..Len(scraper.pages) : scraper.pages[k] \in Within(scraper.maxDepth)
    /\ ResultUrls \subseteq Within(scraper.maxDepth)
    /\ scraper.maxDepth = 0 =>
         /\ scraper.requests = <<>>
         /\ Returned =>
              scraper.result = (IF scraper.maxPages >= 1 THEN <<scraper.startUrl>> ELSE <<>>)

\* The crawl stopped for the depth, not for the number of pages: a returned
\* URL is two links away from the seed and was not requested.
C20_Witness ==
  /\ Returned
  /\ scraper.maxDepth = 2
  /\ Len(scraper.result) < scraper.maxPages
  /\ \E u \in ResultUrls : u \notin Within(1) /\ u \notin RequestedUrls

(***************************************************************************)
(* The tool call: its browser and its response                             *)
(***************************************************************************)

\* The tool has finished: its result or its error is on the way to the
\* caller, or has been answered.
Finished == call.phase \in {"return", "catch", "responded"}

GivenUrls == {pa11y.urls[k] : k \in 1..Len(pa11y.urls)}

FirstGiven(url) == Min({k \in 1..Len(pa11y.urls) : pa11y.urls[k] = url})

AnalysedAt(url) ==
  {k \in 1..Len(analysis.pageAnalyses) : analysis.pageAnalyses[k].url = url}

FailedAt(url) == {k \in 1..Len(analysis.failedPages) : analysis.failedPages[k] = url}

\* C22: analyzeWebsite handles every distinct URL once, in the order given:
\* a URL whose analysis fails is once in failedPages and not in pageAnalyses,
\* a URL whose analysis succeeds is once in pageAnalyses and not in
\* failedPages, whatever happened to the URLs before it; both lists follow
\* the order of first occurrence; pagesAnalyzed is the length of
\* pageAnalyses.
C22_GracefulDegradation ==
  pc # "idle" =>
    /\ \A url \in GivenUrls :
         IF pa11y.scan[url].ok
         THEN Cardinality(AnalysedAt(url)) = 1 /\ FailedAt(url) = {}
         ELSE Cardinality(FailedAt(url)) = 1 /\ AnalysedAt(url) = {}
    /\ \A k \in 1..Len(analysis.pageAnalyses) :
         /\ analysis.pageAnalyses[k].url \in GivenUrls
         /\ \A j \in 1..(k - 1) :
              FirstGiven(analysis.pageAnalyses[j].url) < FirstGiven(analysis.pageAnalyses[k].url)
    /\ \A k \in 1..Len(analysis.failedPages) :
         /\ analysis.failedPages[k] \in GivenUrls
         /\ \A j \in 1..(k - 1) :
              FirstGiven(analysis.failedPages[j]) < FirstGiven(analysis.failedPages[k])
    /\ analysis.pagesAnalyzed = Len(analysis.pageAnalyses)

\* A URL given twice fails, and a URL given after it is analysed.
C22_Witness ==
  /\ pc = "analyzed"
  /\ \E failed \in GivenUrls, later \in GivenUrls :
       /\ FailedAt(failed) # {}
       /\ AnalysedAt(later) # {}
       /\ FirstGiven(failed) < FirstGiven(later)
       /\ Cardinality({k \in 1..Len(pa11y.urls) : pa11y.urls[k] = failed}) = 2

(***************************************************************************)
(* Codes with several references                                           *)
(***************************************************************************)

BareIds(code) ==
  {Dotted(b[1], b[2], b[3]) : b \in UNION {BareReadings(code, i) : i \in BareStarts(code)}}

StructuredIds(code, i) ==
  {Dotted(r[3], r[4], r[5]) : r \in StructuredReadings(code, i)}

\* C23: the structured pattern is tried first and each pattern stops at its
\* leftmost match.  In the spreadsheet's map an issue whose code reads as
\* the structured pattern and also contains a bare N.N.N is filed only under
\* the success criterion of the leftmost structured reading, wherever the
\* bare reference stands; an issue whose code contains only bare references
\* is filed only under the leftmost one.
C23_StructuredFirstLeftmostWins ==
  pc = "excel" =>
    \A issue \in IssuesOf(ReportedIssues) :
      /\ (MatchesStructured(issue) /\ ContainsBare(issue)) =>
           \A id \in StructuredIds(issue.code, Min(StructuredStarts(issue.code))) :
             ExcelFiledOnlyUnder(issue, id)
      /\ (MatchesStructured(issue) /\ Cardinality(StructuredStarts(issue.code)) >= 2) =>
           \A id \in StructuredIds(issue.code, Min(StructuredStarts(issue.code))) :
             ExcelFiledOnlyUnder(issue, id)
      /\ (~MatchesStructured(issue) /\ ContainsBare(issue)) =>
           \A b \in BareReadings(issue.code, Min(BareStarts(issue.code))) :
             ExcelFiledOnlyUnder(issue, Dotted(b[1], b[2], b[3]))

\* A code with a bare reference before its structured part and another
\* after it, both with other numbers, is filed under the structured one.
C23_Witness ==
  /\ pc = "excel"
  /\ \E issue \in IssuesOf(ReportedIssues) :
       /\ MatchesStructured(issue)
       /\ \E i \in BareStarts(issue.code) : i < Min(StructuredStarts(issue.code))
       /\ \E i \in BareStarts(issue.code) : i > Min(StructuredStarts(issue.code))
       /\ \A id \in StructuredIds(issue.code, Min(StructuredStarts(issue.code))) :
            id \notin BareIds(issue.code) /\ ExcelFiledOnlyUnder(issue, id)

(***************************************************************************)
(* Affected elements                                                       *)
(***************************************************************************)

\* The criterion an issue belongs to: the leftmost structured reading, else
\* the leftmost bare one, else none.
CriterionOf(issue) ==
  IF MatchesStructured(issue)
  THEN CHOOSE id \in StructuredIds(issue.code, Min(StructuredStarts(issue.code))) : TRUE
  ELSE IF ContainsBare(issue)
  THEN LET b == CHOOSE r \in BareReadings(issue.code, Min(BareStarts(issue.code))) : TRUE
       IN Dotted(b[1], b[2], b[3])
  ELSE NoMatch

\* What the issues of a criterion contribute: 1 without affectedElements,
\* else affectedElements.
RECURSIVE Contributed(_, _)
Contributed(issues, criterion) ==
  IF issues = <<>> THEN 0
  ELSE (IF CriterionOf(Head(issues)) # criterion THEN 0
        ELSE IF Head(issues).affectedElements = 0 THEN 1
        ELSE Head(issues).affectedElements)
       + Contributed(Tail(issues), criterion)

RECURSIVE SumAffected(_)
SumAffected(entries) ==
  IF entries = <<>> THEN 0
  ELSE entries[1].affectedElements + SumAffected(Tail(entries))

\* C24: for every bucket of the spreadsheet's map, the total of affected
\* elements written in the note of the criterion's row is the sum of
\* affectedElements over the bucket's entries, which is what the issues of
\* the criterion contribute: 1 for an issue without affectedElements, n for
\* an issue with affectedElements = n >= 1; every entry has at least 1.
C24_TotalAffectedElements ==
  pc = "excel" =>
    /\ \A b \in 1..Len(excel.violationsByCriteria) :
         LET bucket == excel.violationsByCriteria[b]
         IN /\ \A k \in 1..Len(bucket.issues) : bucket.issues[k].affectedElements >= 1
            /\ SumAffected(bucket.issues) = Contributed(ReportedIssues, bucket.criterion)
            /\ \A r \in RowsOf(bucket.criterion) :
                 /\ excel.cells[r].note # <<>>
                 /\ excel.cells[r].note[1].elementer = SumAffected(bucket.issues)
    /\ \A r \in 1..Len(excel.cells) :
         excel.cells[r].note # <<>> =>
           \E b \in 1..Len(excel.violationsByCriteria) :
             r \in RowsOf(excel.violationsByCriteria[b].criterion)

\* A row's total adds an issue without affectedElements to one with two.
C24_Witness ==
  /\ pc = "excel"
  /\ \E b \in 1..Len(excel.violationsByCriteria) :
       /\ RowsOf(excel.violationsByCriteria[b].criterion) # {}
       /\ SumAffected(excel.violationsByCriteria[b].issues) = 3
       /\ \E i, j \in IssuesOf(ReportedIssues) :
            /\ CriterionOf(i) = excel.violationsByCriteria[b].criterion
            /\ CriterionOf(j) = excel.violationsByCriteria[b].criterion
            /\ i.affectedElements = 0
            /\ j.affectedElements = 2

Extends(longer, shorter) ==
  Len(longer) >= Len(shorter) /\ SubSeq(longer, 1, Len(shorter)) = shorter

FailedRequest(r) == r.response.status # 200

\* The pages of the list that could still be crawled when the crawl ended:
\* fewer than maxDepth links from the seed, the list not full.
Crawlable(s) ==
  IF s.maxDepth = 0 \/ Len(s.pages) >= s.maxPages THEN {}
  ELSE {s.pages[k] : k \in 1..Len(s.pages)} \cap Within(s.maxDepth - 1)

\* C26: a page that cannot be fetched does not abort the crawl.  Its request
\* brings no link and leaves the list of pages as it was; no step ever
\* removes a page from the list; the loop goes on with the next page; and
\* when the crawl returns, the list is returned whole and every page that
\* could still be crawled has been requested.
C26_FailureDoesNotAbort ==
  [][scraper.phase # "new" =>
       /\ Extends(scraper'.pages, scraper.pages)
       /\ Extends(scraper'.requests, scraper.requests)
       /\ Len(scraper'.requests) > Len(scraper.requests) =>
            /\ scraper'.phase = "inner"
            /\ scraper'.pos = scraper.pos + 1
            /\ FailedRequest(scraper'.requests[Len(scraper'.requests)]) =>
                 /\ scraper'.requests[Len(scraper'.requests)].links = <<>>
                 /\ scraper'.pages = scraper.pages
                 /\ scraper'.nextToCrawl = scraper.nextToCrawl
       /\ (scraper'.phase = "done" /\ scraper.maxPages >= 1) =>
            /\ scraper'.result = scraper.pages
            /\ Crawlable(scraper) \subseteq RequestedUrls]_vars

\* A page of the second level could not be fetched; the page after it on
\* that level brought a new page, which was requested on the next level, and
\* all of them were returned.
C26_Witness ==
  /\ Returned
  /\ scraper.result = scraper.pages
  /\ \E k, j, m \in 1..Len(scraper.requests) :
       /\ k < j /\ j < m
       /\ FailedRequest(scraper.requests[k])
       /\ scraper.requests[k].response.hrefs # <<>>
       /\ scraper.requests[j].depth = scraper.requests[k].depth
       /\ scraper.requests[j].links # <<>>
       /\ scraper.requests[m].depth > scraper.requests[k].depth
       /\ scraper.requests[m].url \in RequestLinks(j)

\* The same page may be written in two ways: a request is for a page
\* already requested when the two URLs are the same once parsed.
SamePage(u, v) == Normalize(u) = Normalize(v)

\* C27: during one crawl each URL is fetched for links at most once (the
\* crawl itself always ends, see C27_TerminatesStringsOnce).
C27_EachUrlFetchedOnce ==
  scraper.phase # "new" =>
    \A k, j \in 1..Len(scraper.requests) :
      k # j => ~SamePage(scraper.requests[k].url, scraper.requests[j].url)

\* What holds of the crawl: it ends, and no URL is requested twice under the
\* same spelling.
C27_TerminatesStringsOnce ==
  /\ [](scraper.phase # "new" =>
          /\ scraper.visited = RequestedUrls
          /\ \A k, j \in 1..Len(scraper.requests) :
               k # j => scraper.requests[k].url # scraper.requests[j].url)
  /\ <>Returned

(***************************************************************************)
(* Sessions of the HTTP server                                             *)
(***************************************************************************)

StoredIds(h) == {e[1] : e \in h.transports}

\* The ids of the transports that have closed.
ClosedIds(h) ==
  {h.made[t].sessionId : t \in {u \in 1..Len(h.made) : h.made[u].state = "closed"}}

\* The map holds the initialized transports that have not closed, each
\* under its own id, and nothing else.
LiveSessions(h) ==
  /\ \A e \in h.transports :
       /\ e[2] \in 1..Len(h.made)
       /\ h.made[e[2]].state = "initialized"
       /\ h.made[e[2]].sessionId = e[1]
       /\ h.made[e[2]].request = "initialize"
  /\ \A t \in 1..Len(h.made) :
       h.made[t].state = "initialized" => <<h.made[t].sessionId, t>> \in h.transports
  /\ \A e, f \in h.transports : e[1] = f[1] => e = f

\* C28: in every state the session map holds exactly the ids of the
\* transports that are initialized and not closed; an id enters the map only
\* when a transport created for an initialize request is initialized, it
\* leaves the map when its transport closes, and from then on every POST,
\* GET and DELETE with that id is answered 400, whatever the other sessions
\* do in between.
C28_SessionMap ==
  /\ []LiveSessions(http)
  /\ [][/\ \A e \in http'.transports \ http.transports :
             /\ e[2] \in 1..Len(http.made)
             /\ http.made[e[2]].state = "connecting"
             /\ http.made[e[2]].request = "initialize"
             /\ http'.made[e[2]].state = "initialized"
        /\ \A e \in http.transports \ http'.transports :
             http'.made[e[2]].state = "closed"
        /\ \A t \in 1..Len(http.made) :
             (http.made[t].state # "closed" /\ http'.made[t].state = "closed") =>
               http.made[t].sessionId \notin StoredIds(http')
        /\ (http'.last # NoAnswer /\ http'.last.sessionId \in ClosedIds(http)) =>
             /\ http'.last.status = 400
             /\ http'.last.transport = 0
             /\ http'.transports = http.transports]_vars

\* One session has closed while another is open, and a request with the
\* closed session's id has just been answered 400.
C28_Witness ==
  /\ http.last # NoAnswer
  /\ http.last.sessionId \in ClosedIds(http)
  /\ http.last.status = 400
  /\ http.last.method = "DELETE"
  /\ \E e \in http.transports : e[1] # http.last.sessionId
  /\ \E t \in 1..Len(http.made) : http.made[t].state = "connecting"

\* The request carries a session id: the header is sent and not empty.
CarriesId(answer) == answer.sessionId # NoSessionId /\ answer.sessionId # ""

\* What the claim says of an answered POST.
PostAnsweredAsClaimed(ids) ==
  (http'.last # NoAnswer /\ http'.last.method = "POST" /\ http'.last.sessionId \in ids) =>
    /\ ( \/ CarriesId(http'.last) /\ http'.last.sessionId \notin StoredIds(http)
         \/ ~CarriesId(http'.last) /\ ~http'.last.isInitialize ) =>
           /\ http'.last.status = 400
           /\ http'.last.transport = 0
           /\ http'.transports = http.transports
           /\ http'.made = http.made
    /\ http'.last.sessionId \in StoredIds(http) =>
           /\ <<http'.last.sessionId, http'.last.transport>> \in http.transports
           /\ http'.transports = http.transports
           /\ http'.made = http.made

C29_RejectedUnlessInherited == [][PostAnsweredAsClaimed(Headers \ PrototypeKeys)]_vars

====
